---------------------------- MODULE Spec2Model ----------------------------
(***************************************************************************)
(* Model of the htmltojson front end:                                      *)
(*   - CacheManager (frontend/utils/CacheManager.js): a Map kept in        *)
(*     insertion order, with TTL expiry and LRU eviction;                  *)
(*   - IceblueHtmlParser (frontend/parser/IceblueHtmlParser.js): the async *)
(*     parse call, its per-instance collections and statistics;            *)
(*   - IceblueParser (frontend/index.js): parse wrapped by the cache.      *)
(*                                                                         *)
(* A JavaScript string is a sequence of one-character strings, so that     *)
(* hashing, trimming and emptiness are computed and not assumed; tag and   *)
(* attribute names, which the code only compares, are TLA+ strings.        *)
(* Date.now() is read once per synchronous call: the variable now.         *)
(***************************************************************************)
EXTENDS Integers, Sequences, FiniteSets, TLC

VARIABLES
  cache,        \* CacheManager.cache: the Map, as the sequence of its entries in insertion order
  maxSize,      \* CacheManager.maxSize
  defaultTTL,   \* CacheManager.defaultTTL
  enabled,      \* CacheManager.enabled
  now,          \* the clock read by Date.now()
  lastOp,       \* history: the last CacheManager method called, its arguments and its return value
  recency,      \* history: the keys in the Map, from the least to the most recently accessed
  collectedImages,  \* IceblueHtmlParser.collectedImages
  collectedLinks,   \* IceblueHtmlParser.collectedLinks
  stats,            \* IceblueHtmlParser.stats
  currentDepth,     \* DomTraverser.currentDepth
  calls,        \* the parse calls made so far: arguments, locals, position and return value
  microtasks,   \* the continuations of the suspended calls, in the order they will run
  hasSubtle,    \* the environment: whether crypto.subtle is defined
  tree,         \* the tree handed to a traverser, a formatter or a validator
  answer,       \* the last call made on tree: its name, its arguments and its return value
  backend       \* the BackendParser, when there is one: its options and its validator

cacheVars == <<cache, maxSize, defaultTTL, enabled, now, lastOp, recency>>
parserVars == <<collectedImages, collectedLinks, stats, currentDepth>>
treeVars == <<tree, answer>>
vars == <<cache, maxSize, defaultTTL, enabled, now, lastOp, recency,
          collectedImages, collectedLinks, stats, currentDepth, calls, microtasks, hasSubtle,
          tree, answer, backend>>

----------------------------------------------------------------------------
(* Bounds of the model *)

\* last clock reading from which the clock still ticks
MaxNow == 1

\* the number of parse calls made on one IceblueHtmlParser called directly
MaxCalls == 3

\* the number of parse calls made on one IceblueParser
MaxCachedCalls == 2

\* the number of nodes of a tree
MaxNodes == 4

\* the largest maxDepth option
MaxLimit == 3

----------------------------------------------------------------------------
(* JavaScript values *)

\* null, where the other values are objects
Null == [null |-> TRUE]

\* null, where the other values are numbers (no number the code stores is negative)
NullNum == -1

\* the default size of the cache: options.maxSize || 100
DEFAULT_MAX_SIZE == 100

\* the default TTL: options.ttl || 3600000
DEFAULT_TTL == 3600000

\* x || d on numbers: 0 and null (an option left out) are falsy
OrDefault(x, d) == IF x = NullNum \/ x = 0 THEN d ELSE x

\* truthiness of a number or null
TruthyNum(x) == x # NullNum /\ x # 0

\* truthiness of a string
TruthyStr(s) == Len(s) > 0

----------------------------------------------------------------------------
(* Strings, JSON.stringify and the key of a cache entry *)

\* the characters of the names and literals that JSON.stringify writes, and of
\* the tag and attribute names that the formatter writes
Chars(name) ==
  CASE name = "html" -> <<"h", "t", "m", "l">>
    [] name = "head" -> <<"h", "e", "a", "d">>
    [] name = "body" -> <<"b", "o", "d", "y">>
    [] name = "div" -> <<"d", "i", "v">>
    [] name = "br" -> <<"b", "r">>
    [] name = "p" -> <<"p">>
    [] name = "a" -> <<"a">>
    [] name = "img" -> <<"i", "m", "g">>
    [] name = "id" -> <<"i", "d">>
    [] name = "class" -> <<"c", "l", "a", "s", "s">>
    [] name = "src" -> <<"s", "r", "c">>
    [] name = "href" -> <<"h", "r", "e", "f">>
    [] name = "options" -> <<"o", "p", "t", "i", "o", "n", "s">>
    [] name = "textOnly" -> <<"t", "e", "x", "t", "O", "n", "l", "y">>
    [] name = "includeImages" ->
         <<"i", "n", "c", "l", "u", "d", "e", "I", "m", "a", "g", "e", "s">>
    [] name = "true" -> <<"t", "r", "u", "e">>
    [] name = "false" -> <<"f", "a", "l", "s", "e">>
    [] name = "type" -> <<"t", "y", "p", "e">>
    [] name = "tag" -> <<"t", "a", "g">>
    [] name = "attributes" -> <<"a", "t", "t", "r", "i", "b", "u", "t", "e", "s">>
    [] name = "children" -> <<"c", "h", "i", "l", "d", "r", "e", "n">>
    [] name = "text" -> <<"t", "e", "x", "t">>
    [] name = "root" -> <<"r", "o", "o", "t">>
    [] name = "structure" -> <<"s", "t", "r", "u", "c", "t", "u", "r", "e">>
    [] name = "images" -> <<"i", "m", "a", "g", "e", "s">>
    [] name = "links" -> <<"l", "i", "n", "k", "s">>
    [] name = "element" -> <<"e", "l", "e", "m", "e", "n", "t">>
    [] name = "comment" -> <<"c", "o", "m", "m", "e", "n", "t">>
    [] name = "null" -> <<"n", "u", "l", "l">>

\* String.prototype.charCodeAt, for the characters of the model
CharCode(ch) ==
  CASE ch = " " -> 32 [] ch = "\"" -> 34 [] ch = "," -> 44 [] ch = "/" -> 47
    [] ch = ":" -> 58 [] ch = "<" -> 60 [] ch = "=" -> 61 [] ch = ">" -> 62
    [] ch = "A" -> 65 [] ch = "B" -> 66 [] ch = "I" -> 73 [] ch = "L" -> 76
    [] ch = "O" -> 79 [] ch = "\\" -> 92
    [] ch = "a" -> 97 [] ch = "c" -> 99 [] ch = "d" -> 100 [] ch = "e" -> 101
    [] ch = "f" -> 102 [] ch = "g" -> 103 [] ch = "h" -> 104 [] ch = "i" -> 105
    [] ch = "l" -> 108 [] ch = "m" -> 109 [] ch = "n" -> 110 [] ch = "o" -> 111
    [] ch = "p" -> 112 [] ch = "r" -> 114 [] ch = "s" -> 115 [] ch = "t" -> 116
    [] ch = "u" -> 117 [] ch = "x" -> 120 [] ch = "y" -> 121
    [] ch = "{" -> 123 [] ch = "}" -> 125

\* JSON.stringify of a string: quoted, with quotes and backslashes escaped
RECURSIVE JsonEscape(_)
JsonEscape(str) ==
  IF Len(str) = 0 THEN <<>>
  ELSE (IF Head(str) \in {"\"", "\\"} THEN <<"\\", Head(str)>> ELSE <<Head(str)>>)
       \o JsonEscape(Tail(str))

JsonString(str) == <<"\"">> \o JsonEscape(str) \o <<"\"">>

\* JSON.stringify of an options object: its own keys in insertion order, each
\* value a boolean
RECURSIVE JsonMembers(_)
JsonMembers(obj) ==
  IF Len(obj) = 0 THEN <<>>
  ELSE JsonString(Chars(obj[1].name)) \o <<":">>
       \o Chars(IF obj[1].value THEN "true" ELSE "false")
       \o (IF Len(obj) > 1 THEN <<",">> ELSE <<>>)
       \o JsonMembers(Tail(obj))

JsonObject(obj) == <<"{">> \o JsonMembers(obj) \o <<"}">>

\* JSON.stringify({ html, options }): html is a string or null
JsonContent(html, options) ==
  <<"{">> \o JsonString(Chars("html")) \o <<":">>
  \o (IF html.type = "string" THEN JsonString(html.chars) ELSE Chars("null"))
  \o <<",">> \o JsonString(Chars("options")) \o <<":">> \o JsonObject(options)
  \o <<"}">>

\* A 32-bit integer as two 16-bit halves, so that no product leaves the range
\* of the checker's integers
Half == 65536

\* (hash << 5) - hash + char, then hash & hash: the result modulo 2^32
HashStep(h, code) ==
  LET shlLo == h.lo * 32
      shl == [lo |-> shlLo % Half, hi |-> (h.hi * 32 + shlLo \div Half) % Half]
      subLo == shl.lo - h.lo
      sub == [lo |-> (subLo + Half) % Half,
              hi |-> (shl.hi - h.hi - (IF subLo < 0 THEN 1 ELSE 0) + 2 * Half) % Half]
      addLo == sub.lo + code
  IN [lo |-> addLo % Half, hi |-> (sub.hi + addLo \div Half) % Half]

\* the signed value of the 32 bits
ToInt32(h) == (IF h.hi >= Half \div 2 THEN h.hi - Half ELSE h.hi) * Half + h.lo

\* the digits of Number.prototype.toString(36)
Digit36(d) ==
  SubSeq(<<"0", "1", "2", "3", "4", "5", "6", "7", "8", "9", "a", "b", "c", "d",
           "e", "f", "g", "h", "i", "j", "k", "l", "m", "n", "o", "p", "q", "r",
           "s", "t", "u", "v", "w", "x", "y", "z">>, d + 1, d + 1)

RECURSIVE Digits36(_)
Digits36(n) == IF n < 36 THEN Digit36(n) ELSE Digits36(n \div 36) \o Digit36(n % 36)

\* hash.toString(36): -2^31 has no positive counterpart in 32 bits
ToString36(n) ==
  IF n >= 0 THEN Digits36(n)
  ELSE IF n = -2147483647 - 1
       THEN <<"-">> \o Digits36(2147483647 \div 36) \o Digit36((2147483647 % 36) + 1)
       ELSE <<"-">> \o Digits36(-n)

\* the 32 bits of hash are there after each turn of the loop
IsInt32(h) == h.hi \in 0..(Half - 1) /\ h.lo \in 0..(Half - 1)

\* the loop of simpleHash over the characters left, with hash computed turn by turn
RECURSIVE HashLoop(_, _)
HashLoop(str, h) ==
  IF Len(str) = 0 \/ ~IsInt32(h) THEN h
  ELSE HashLoop(Tail(str), HashStep(h, CharCode(Head(str))))

\* simpleHash(str)
simpleHash(str) == ToString36(ToInt32(HashLoop(str, [hi |-> 0, lo |-> 0])))

\* crypto.createHash('md5').update(content).digest('hex'): the digest is not
\* computed; it is written as the content itself, marked, so that distinct
\* contents have distinct digests
Md5Hex(content) == <<"md5">> \o content

\* generateKey(html, options); subtle tells whether crypto.subtle is defined
generateKey(html, options, subtle) ==
  IF subtle THEN simpleHash(JsonContent(html, options))
  ELSE Md5Hex(JsonContent(html, options))

----------------------------------------------------------------------------
(* CacheManager: the Map *)

\* index of key k in the Map, 0 when absent
IndexOf(c, k) ==
  IF \E i \in 1..Len(c) : c[i].key = k
  THEN CHOOSE i \in 1..Len(c) : c[i].key = k
  ELSE 0

\* Map.prototype.has
MapHas(c, k) == IndexOf(c, k) # 0

\* Map.prototype.delete: the other entries keep their order
MapDelete(c, k) == SelectSeq(c, LAMBDA e : e.key # k)

\* Map.prototype.set: an existing key keeps its place, a new key goes last
MapSet(c, k, item) ==
  LET e == [key |-> k, data |-> item.data, createdAt |-> item.createdAt,
            lastAccessed |-> item.lastAccessed, expires |-> item.expires]
  IN IF MapHas(c, k)
     THEN [c EXCEPT ![IndexOf(c, k)] = e]
     ELSE Append(c, e)

IsExpired_OffByOne(item, t) == TruthyNum(item.expires) /\ t >= item.expires

\* item.expires && Date.now() > item.expires
IsExpired(item, t) == TruthyNum(item.expires) /\ t > item.expires

----------------------------------------------------------------------------
(* CacheManager: the methods, as functions of the state they read *)

\* constructor: the three options, NullNum for an option left out
NewMaxSize(opt) == OrDefault(opt, DEFAULT_MAX_SIZE)
NewDefaultTTL(opt) == OrDefault(opt, DEFAULT_TTL)

\* the loop of evict from entry i on; least is the index of leastUsedKey
\* (0 for null, with leastUsedTime = Infinity)
RECURSIVE EvictScan(_, _, _, _)
EvictScan(c, i, least, t) ==
  IF i > Len(c)
  THEN IF least # 0 /\ TruthyStr(c[least].key)
       THEN MapDelete(c, c[least].key)
       ELSE c
  ELSE IF IsExpired(c[i], t)
       THEN MapDelete(c, c[i].key)
       ELSE IF least = 0 \/ c[i].lastAccessed < c[least].lastAccessed
            THEN EvictScan(c, i + 1, i, t)
            ELSE EvictScan(c, i + 1, least, t)

\* evict()
evict(c, t) == IF Len(c) = 0 THEN c ELSE EvictScan(c, 1, 0, t)

get_IgnoresEnabled(c, en, k, t) ==
  IF ~MapHas(c, k) THEN [cache |-> c, ret |-> Null]
  ELSE LET item == c[IndexOf(c, k)] IN
       IF IsExpired(item, t)
       THEN [cache |-> MapDelete(c, k), ret |-> Null]
       ELSE [cache |-> [c EXCEPT ![IndexOf(c, k)].lastAccessed = t],
             ret |-> item.data]

\* get(key): the Map afterwards and the value returned
get(c, en, k, t) ==
  IF ~en THEN [cache |-> c, ret |-> Null]
  ELSE IF ~MapHas(c, k) THEN [cache |-> c, ret |-> Null]
  ELSE LET item == c[IndexOf(c, k)] IN
       IF IsExpired(item, t)
       THEN [cache |-> MapDelete(c, k), ret |-> Null]
       ELSE [cache |-> [c EXCEPT ![IndexOf(c, k)].lastAccessed = t],
             ret |-> item.data]

set_TtlOrDefault(c, cap, dttl, en, k, d, ttl, t) ==
  IF ~en THEN c
  ELSE LET c1 == IF Len(c) >= cap THEN evict(c, t) ELSE c
           ttlValue == OrDefault(ttl, dttl)
           item == [data |-> d, createdAt |-> t, lastAccessed |-> t,
                    expires |-> IF ttlValue > 0 THEN t + ttlValue ELSE NullNum]
       IN MapSet(c1, k, item)

\* set(key, data, ttl): the Map afterwards; ttl is NullNum when left out
set(c, cap, dttl, en, k, d, ttl, t) ==
  IF ~en THEN c
  ELSE LET c1 == IF Len(c) >= cap THEN evict(c, t) ELSE c
           ttlValue == IF ttl # NullNum THEN ttl ELSE dttl
           item == [data |-> d, createdAt |-> t, lastAccessed |-> t,
                    expires |-> IF ttlValue > 0 THEN t + ttlValue ELSE NullNum]
       IN MapSet(c1, k, item)

\* has(key): the Map afterwards and the value returned
has(c, k, t) ==
  IF ~MapHas(c, k) THEN [cache |-> c, ret |-> FALSE]
  ELSE IF IsExpired(c[IndexOf(c, k)], t)
       THEN [cache |-> MapDelete(c, k), ret |-> FALSE]
       ELSE [cache |-> c, ret |-> TRUE]

\* cleanup(): the Map afterwards and the number of entries removed
cleanup(c, t) ==
  LET kept == SelectSeq(c, LAMBDA e : ~IsExpired(e, t))
  IN [cache |-> kept, ret |-> Len(c) - Len(kept)]

----------------------------------------------------------------------------
(* The DOM handed over by the DOM engine, and the inputs of parse *)

\* an input of parse: a string, or null
Str(chars) == [type |-> "string", chars |-> chars]

\* DOM nodes: Node.ELEMENT_NODE = 1, Node.TEXT_NODE = 3, Node.COMMENT_NODE = 8
Element(tag, attrs, kids) ==
  [nodeType |-> 1, tagName |-> tag, attributes |-> attrs, childNodes |-> kids]
TextNode(chars) == [nodeType |-> 3, textContent |-> chars, childNodes |-> <<>>]
Comment(chars) == [nodeType |-> 8, textContent |-> chars, childNodes |-> <<>>]
Attr(name, chars) == [name |-> name, value |-> chars]

\* the document the engine builds around the parsed body: html > (head, body)
HtmlDocument(bodyKids) ==
  [documentElement |->
     Element("HTML", <<>>, <<Element("HEAD", <<>>, <<>>), Element("BODY", <<>>, bodyKids)>>)]

HtmlEmpty == Str(<<>>)
HtmlAa == Str(<<"A", "a">>)
HtmlBB == Str(<<"B", "B">>)
HtmlImg == Str(<<"<", "i", "m", "g", " ", "s", "r", "c", "=", "x", ">">>)
HtmlLink == Str(<<"<", "a", " ", "h", "r", "e", "f", "=", "y", ">", "L", " ", "<", "/", "a", ">">>)

\* createDOM(html): what the DOM engine (DOMParser, JSDOM) returns for the inputs
\* of the model
createDOM(html) ==
  CASE html = HtmlAa -> HtmlDocument(<<TextNode(<<"A", "a">>)>>)
    [] html = HtmlBB -> HtmlDocument(<<TextNode(<<"B", "B">>)>>)
    [] html = HtmlImg -> HtmlDocument(<<Element("IMG", <<Attr("src", <<"x">>)>>, <<>>)>>)
    [] html = HtmlLink ->
         HtmlDocument(<<Element("A", <<Attr("href", <<"y">>)>>, <<TextNode(<<"L", " ">>)>>)>>)

\* tagName.toLowerCase(), for the tags of the model
ToLowerCase(tag) ==
  CASE tag = "HTML" -> "html" [] tag = "HEAD" -> "head" [] tag = "BODY" -> "body"
    [] tag = "IMG" -> "img" [] tag = "A" -> "a" [] tag = "P" -> "p"
    [] tag = "DIV" -> "div" [] tag = "BR" -> "br"

IsSpace(ch) == ch \in {" ", "\n", "\t"}

\* String.prototype.trim
RECURSIVE TrimStart(_)
TrimStart(str) ==
  IF Len(str) > 0 /\ IsSpace(Head(str)) THEN TrimStart(Tail(str)) ELSE str

RECURSIVE TrimEnd(_)
TrimEnd(str) ==
  IF Len(str) > 0 /\ IsSpace(str[Len(str)])
  THEN TrimEnd(SubSeq(str, 1, Len(str) - 1))
  ELSE str

Trim(str) == TrimEnd(TrimStart(str))

\* element.getAttribute(name): the value, or Null
getAttribute(el, name) ==
  IF \E i \in 1..Len(el.attributes) : el.attributes[i].name = name
  THEN Str(el.attributes[CHOOSE i \in 1..Len(el.attributes) :
                            el.attributes[i].name = name].value)
  ELSE Null

\* getAttribute(name) || ''
AttrOrEmpty(el, name) ==
  IF getAttribute(el, name) # Null /\ TruthyStr(getAttribute(el, name).chars)
  THEN getAttribute(el, name).chars
  ELSE <<>>

\* node.textContent: the text of the node and of its descendants
RECURSIVE textContent(_)
RECURSIVE TextOfAll(_)
textContent(node) ==
  IF node.nodeType = 1 THEN TextOfAll(node.childNodes) ELSE node.textContent
TextOfAll(nodes) ==
  IF Len(nodes) = 0 THEN <<>> ELSE textContent(Head(nodes)) \o TextOfAll(Tail(nodes))

\* querySelectorAll(tag): the descendant elements with that tag, in document order
RECURSIVE Descendants(_, _)
RECURSIVE DescendantsOfAll(_, _)
Descendants(node, tag) ==
  (IF node.nodeType = 1 /\ node.tagName = tag THEN <<node>> ELSE <<>>)
  \o DescendantsOfAll(node.childNodes, tag)
DescendantsOfAll(nodes, tag) ==
  IF Len(nodes) = 0 THEN <<>>
  ELSE Descendants(Head(nodes), tag) \o DescendantsOfAll(Tail(nodes), tag)

querySelectorAll(document, tag) == Descendants(document.documentElement, tag)

\* document.body
DocumentBody(document) ==
  LET kids == document.documentElement.childNodes
  IN IF \E i \in 1..Len(kids) : kids[i].nodeType = 1 /\ kids[i].tagName = "BODY"
     THEN kids[CHOOSE i \in 1..Len(kids) : kids[i].nodeType = 1 /\ kids[i].tagName = "BODY"]
     ELSE Null

----------------------------------------------------------------------------
(* DomTraverser *)

\* the maximum depth of the traverser: options.maxDepth || 100
TRAVERSER_MAX_DEPTH == 100

\* attributes[name] = value on an object that keeps its keys in insertion order
SetProperty(obj, name, value) ==
  IF \E i \in 1..Len(obj) : obj[i].name = name
  THEN [obj EXCEPT ![CHOOSE i \in 1..Len(obj) : obj[i].name = name].value = value]
  ELSE Append(obj, [name |-> name, value |-> value])

\* { ...a, ...b }, and the loop that assigns every property of b to a
RECURSIVE Spread(_, _)
Spread(a, b) ==
  IF Len(b) = 0 THEN a
  ELSE Spread(SetProperty(a, Head(b).name, Head(b).value), Tail(b))

\* processElement(element)
processElement(element) ==
  LET copied == Spread(<<>>, element.attributes)
      id == AttrOrEmpty(element, "id")
      className == AttrOrEmpty(element, "class")
      withId == IF TruthyStr(id) THEN SetProperty(copied, "id", id) ELSE copied
      withClass == IF TruthyStr(className)
                   THEN SetProperty(withId, "class", className)
                   ELSE withId
  IN [type |-> "element", tag |-> ToLowerCase(element.tagName), attributes |-> withClass]

\* processText(textNode)
processText(textNode) ==
  LET text == Trim(textNode.textContent)
  IN IF ~TruthyStr(text) THEN Null ELSE [type |-> "text", text |-> text]

\* processComment(commentNode)
processComment(commentNode) == [type |-> "comment", text |-> commentNode.textContent]

\* processNode(node)
processNode(node) ==
  CASE node.nodeType = 1 -> processElement(node)
    [] node.nodeType = 3 -> processText(node)
    [] node.nodeType = 8 -> processComment(node)
    [] OTHER -> Null

AtMaxDepth_Never(depth, maxDepth) == FALSE

AtMaxDepth_TwoLater(depth, maxDepth) == depth >= maxDepth + 2

\* this.currentDepth >= this.maxDepth
AtMaxDepth(depth, maxDepth) == depth >= maxDepth

\* traverse(node) with this.currentDepth = depth
RECURSIVE traverse(_, _, _)
RECURSIVE TraverseChildren(_, _, _)
traverse(node, depth, maxDepth) ==
  IF AtMaxDepth(depth, maxDepth) THEN Null
  ELSE LET result == processNode(node)
       IN IF result # Null /\ Len(node.childNodes) > 0
          THEN result @@ [children |-> TraverseChildren(node.childNodes, depth + 1, maxDepth)]
          ELSE result
TraverseChildren(nodes, depth, maxDepth) ==
  IF Len(nodes) = 0 THEN <<>>
  ELSE LET childResult == traverse(Head(nodes), depth, maxDepth)
       IN (IF childResult # Null THEN <<childResult>> ELSE <<>>)
          \o TraverseChildren(Tail(nodes), depth, maxDepth)

----------------------------------------------------------------------------
(* IceblueHtmlParser: the extraction and the statistics *)

\* parseInt(string): the decimal digits at the start, NaN without any
NaN == [nan |-> TRUE]
Num(n) == [num |-> n]
DigitValue(ch) ==
  CASE ch = "0" -> 0 [] ch = "1" -> 1 [] ch = "2" -> 2 [] ch = "3" -> 3 [] ch = "4" -> 4
    [] ch = "5" -> 5 [] ch = "6" -> 6 [] ch = "7" -> 7 [] ch = "8" -> 8 [] ch = "9" -> 9
    [] OTHER -> NullNum

RECURSIVE ParseDigits(_, _)
ParseDigits(str, acc) ==
  IF Len(str) = 0 \/ DigitValue(Head(str)) = NullNum THEN acc
  ELSE ParseDigits(Tail(str), acc * 10 + DigitValue(Head(str)))

parseInt(str) ==
  LET trimmed == TrimStart(str)
      negative == Len(trimmed) > 0 /\ Head(trimmed) = "-"
      digits == IF Len(trimmed) > 0 /\ Head(trimmed) \in {"-", "+"}
                THEN Tail(trimmed) ELSE trimmed
  IN IF Len(digits) = 0 \/ DigitValue(Head(digits)) = NullNum THEN NaN
     ELSE Num((IF negative THEN -1 ELSE 1) * ParseDigits(digits, 0))

\* img.getAttribute(name) ? parseInt(img.getAttribute(name)) : null
IntAttr(el, name) ==
  IF TruthyStr(AttrOrEmpty(el, name)) THEN parseInt(AttrOrEmpty(el, name)) ELSE Null

RECURSIVE ImagesOf(_)
ImagesOf(imgs) ==
  IF Len(imgs) = 0 THEN <<>>
  ELSE LET img == Head(imgs)
           imageInfo == [src |-> IF TruthyStr(AttrOrEmpty(img, "src"))
                                 THEN AttrOrEmpty(img, "src")
                                 ELSE AttrOrEmpty(img, "data-src"),
                         alt |-> AttrOrEmpty(img, "alt"),
                         width |-> IntAttr(img, "width"),
                         height |-> IntAttr(img, "height"),
                         title |-> AttrOrEmpty(img, "title")]
       IN (IF TruthyStr(imageInfo.src) THEN <<imageInfo>> ELSE <<>>)
          \o ImagesOf(Tail(imgs))

\* extractImages(document)
extractImages(document) == ImagesOf(querySelectorAll(document, "IMG"))

RECURSIVE LinksOf(_)
LinksOf(links) ==
  IF Len(links) = 0 THEN <<>>
  ELSE LET link == Head(links)
           linkInfo == [href |-> AttrOrEmpty(link, "href"),
                        text |-> Trim(textContent(link)),
                        target |-> AttrOrEmpty(link, "target"),
                        rel |-> AttrOrEmpty(link, "rel"),
                        title |-> AttrOrEmpty(link, "title")]
       IN (IF TruthyStr(linkInfo.href) THEN <<linkInfo>> ELSE <<>>)
          \o LinksOf(Tail(links))

\* extractLinks(document)
extractLinks(document) == LinksOf(querySelectorAll(document, "A"))

HasChildren(n) == "children" \in DOMAIN n

\* countNodes in updateStats: the elements and the text length under n
RECURSIVE countNodes(_)
RECURSIVE CountAll(_)
countNodes(n) ==
  LET own == [totalElements |-> IF n.type = "element" THEN 1 ELSE 0,
              totalTextLength |-> IF n.type = "text" /\ TruthyStr(n.text)
                                  THEN Len(n.text) ELSE 0]
      below == IF HasChildren(n) THEN CountAll(n.children)
               ELSE [totalElements |-> 0, totalTextLength |-> 0]
  IN [totalElements |-> own.totalElements + below.totalElements,
      totalTextLength |-> own.totalTextLength + below.totalTextLength]
CountAll(nodes) ==
  IF Len(nodes) = 0 THEN [totalElements |-> 0, totalTextLength |-> 0]
  ELSE LET first == countNodes(Head(nodes))
           rest == CountAll(Tail(nodes))
       IN [totalElements |-> first.totalElements + rest.totalElements,
           totalTextLength |-> first.totalTextLength + rest.totalTextLength]

\* calculateDepth in updateStats
RECURSIVE calculateDepth(_, _)
RECURSIVE MaxDepthOf(_, _, _)
calculateDepth(n, depth) ==
  IF ~HasChildren(n) \/ Len(n.children) = 0 THEN depth
  ELSE MaxDepthOf(n.children, depth + 1, depth)
MaxDepthOf(nodes, depth, maxDepth) ==
  IF Len(nodes) = 0 THEN maxDepth
  ELSE LET childDepth == calculateDepth(Head(nodes), depth)
       IN MaxDepthOf(Tail(nodes), depth, IF childDepth > maxDepth THEN childDepth ELSE maxDepth)

----------------------------------------------------------------------------
(* IceblueHtmlParser: the instance and the two halves of parse *)

\* CONSTANTS.DEFAULTS.MAX_DEPTH and CONSTANTS.ERROR_CODES.PARSE_FAILED
MAX_DEPTH == 100
PARSE_FAILED == "PARSE_FAILED"

\* this.options of new IceblueHtmlParser()
InstanceOptions ==
  <<[name |-> "includeImages", value |-> TRUE],
    [name |-> "includeScripts", value |-> FALSE],
    [name |-> "includeStyles", value |-> FALSE],
    [name |-> "strictMode", value |-> FALSE],
    [name |-> "depthLimit", value |-> OrDefault(NullNum, MAX_DEPTH)],
    [name |-> "textOnly", value |-> FALSE],
    [name |-> "preserveWhitespace", value |-> FALSE]>>

\* options[name]: undefined, which is falsy, for a name that is not there
GetOption(options, name) ==
  IF \E i \in 1..Len(options) : options[i].name = name
  THEN options[CHOOSE i \in 1..Len(options) : options[i].name = name].value
  ELSE FALSE

\* the maxDepth of the traverser of the instance
TraverserMaxDepth == OrDefault(GetOption(InstanceOptions, "depthLimit"), TRAVERSER_MAX_DEPTH)

\* the statistics of a new instance, and after reset()
NewStats ==
  [totalElements |-> 0, totalTextLength |-> 0, depth |-> 0,
   startTime |-> NullNum, endTime |-> NullNum]

\* the collections, the statistics and the traverser depth of new IceblueHtmlParser()
NewInstance ==
  [collectedImages |-> <<>>, collectedLinks |-> <<>>, stats |-> NewStats, currentDepth |-> 0]

reset_KeepsStats(self) ==
  [self EXCEPT !.collectedImages = <<>>, !.collectedLinks = <<>>, !.currentDepth = 0]

\* reset()
reset(self) ==
  [collectedImages |-> <<>>, collectedLinks |-> <<>>, stats |-> NewStats, currentDepth |-> 0]

\* updateStats(node)
updateStats(self, node) ==
  IF node = Null THEN self
  ELSE [self EXCEPT !.stats.totalElements = @ + countNodes(node).totalElements,
                    !.stats.totalTextLength = @ + countNodes(node).totalTextLength,
                    !.stats.depth = calculateDepth(node, 0)]

\* parseDocument(document, options): the instance afterwards and the value returned.
\* The regions and the metadata of IceblueSpecificParser.parse are a function of
\* the document alone and are left out of the value.
parseDocument(self, document, options) ==
  LET s0 == reset(self)
      rootNode ==
        IF GetOption(options, "textOnly")
        THEN [type |-> "text",
              text |-> IF DocumentBody(document) # Null
                       THEN Trim(textContent(DocumentBody(document)))
                       ELSE <<>>]
        ELSE traverse(document.documentElement, s0.currentDepth, TraverserMaxDepth)
      s1 == IF GetOption(options, "includeImages")
            THEN [s0 EXCEPT !.collectedImages = extractImages(document)]
            ELSE s0
      s2 == [s1 EXCEPT !.collectedLinks = extractLinks(document)]
  IN [self |-> updateStats(s2, rootNode), result |-> [structure |-> [root |-> rootNode]]]

\* !html || typeof html !== 'string'
InvalidHtml(html) == html.type # "string" \/ ~TruthyStr(html.chars)

\* parse(html, parseOptions) up to its await, or up to its return when the input is
\* rejected: the instance afterwards, whether the call is suspended, the value
\* parseDocument returned and the value parse returned
parseBegin(self, html, parseOptions, t) ==
  LET s0 == [self EXCEPT !.stats.startTime = t]
  IN IF InvalidHtml(html)
     THEN [self |-> reset([s0 EXCEPT !.stats.endTime = t]),
           suspended |-> FALSE,
           result |-> Null,
           ret |-> [success |-> FALSE, error |-> "Invalid HTML input",
                    errorCode |-> PARSE_FAILED, duration |-> t - t]]
     ELSE LET options == Spread(InstanceOptions, parseOptions)
              r == parseDocument(s0, createDOM(html), options)
          IN [self |-> r.self, suspended |-> TRUE, result |-> r.result, ret |-> Null]

\* parse from its await to its return: startTime and result are its locals
parseEnd(self, startTime, result, t) ==
  LET ended == [duration |-> t - startTime] @@ [self.stats EXCEPT !.endTime = t]
      s1 == [self EXCEPT !.stats = ended]
  IN [self |-> reset(s1),
      ret |-> [success |-> TRUE,
               data |-> [structure |-> result.structure,
                         images |-> s1.collectedImages,
                         links |-> s1.collectedLinks,
                         stats |-> s1.stats],
               duration |-> s1.stats.duration]]

----------------------------------------------------------------------------
(* IceblueParser *)

\* this.defaultOptions of new IceblueParser()
DefaultOptions == <<>>

CacheHit_Never(cached) == FALSE

\* if (cached)
CacheHit(cached) == cached # Null

----------------------------------------------------------------------------
(* Formatter: the html format *)

\* the nodes of an emitted tree
ElementNode(tag, attributes) == [type |-> "element", tag |-> tag, attributes |-> attributes]
TextOf(chars) == [type |-> "text", text |-> chars]
CommentOf(chars) == [type |-> "comment", text |-> chars]

\* the map of escapeHTML
EscapeHtmlChar(ch) ==
  CASE ch = "&" -> <<"&", "a", "m", "p", ";">>
    [] ch = "<" -> <<"&", "l", "t", ";">>
    [] ch = ">" -> <<"&", "g", "t", ";">>
    [] ch = "\"" -> <<"&", "q", "u", "o", "t", ";">>
    [] ch = "'" -> <<"&", "#", "0", "3", "9", ";">>
    [] OTHER -> <<ch>>

\* escapeHTML(text), text a string
RECURSIVE escapeHTML(_)
escapeHTML(text) ==
  IF Len(text) = 0 THEN <<>> ELSE EscapeHtmlChar(Head(text)) \o escapeHTML(Tail(text))

\* attrPairs.join(' '): every value of the model is a string
RECURSIVE AttrPairs(_)
AttrPairs(attributes) ==
  IF Len(attributes) = 0 THEN <<>>
  ELSE Chars(Head(attributes).name) \o <<"=", "\"">>
       \o escapeHTML(Head(attributes).value) \o <<"\"">>
       \o (IF Len(attributes) > 1 THEN <<" ">> ELSE <<>>)
       \o AttrPairs(Tail(attributes))

\* formatAttributes(attributes)
formatAttributes(attributes) ==
  IF Len(attributes) = 0 THEN <<>> ELSE <<" ">> \o AttrPairs(attributes)

\* isSelfClosingTag(tag), for a tag in lower case
isSelfClosingTag(tag) ==
  tag \in {"img", "br", "hr", "input", "meta", "link", "area",
           "base", "col", "embed", "source", "track", "wbr"}

\* nodeToHTML(node)
RECURSIVE nodeToHTML(_)
RECURSIVE NodesToHTML(_)
nodeToHTML(node) ==
  IF node = Null THEN <<>>
  ELSE CASE node.type = "text" -> escapeHTML(node.text)
         [] node.type = "element" ->
              LET tag == Chars(node.tag)
                  attributes == formatAttributes(node.attributes)
                  children == IF HasChildren(node) THEN NodesToHTML(node.children) ELSE <<>>
              IN IF isSelfClosingTag(node.tag)
                 THEN <<"<">> \o tag \o attributes \o <<" ", "/", ">">>
                 ELSE <<"<">> \o tag \o attributes \o <<">">> \o children
                      \o <<"<", "/">> \o tag \o <<">">>
         [] node.type = "comment" ->
              <<"<", "!", "-", "-", " ">> \o escapeHTML(node.text) \o <<" ", "-", "-", ">">>
         [] OTHER -> <<>>
NodesToHTML(nodes) ==
  IF Len(nodes) = 0 THEN <<>> ELSE nodeToHTML(Head(nodes)) \o NodesToHTML(Tail(nodes))

\* toHTML(data): !data.root holds for an object with no root property
toHTML(data) ==
  IF data = Null \/ "root" \notin DOMAIN data \/ data.root = Null THEN <<>>
  ELSE nodeToHTML(data.root)

----------------------------------------------------------------------------
(* Formatter.toJSON. A JSON value carries its type: null, a string with its
   characters, an array with its items, an object with its entries in insertion
   order *)

JsNull == [t |-> "null"]
JsString(chars) == [t |-> "string", v |-> chars]
JsArray(items) == [t |-> "array", v |-> items]
JsObject(entries) == [t |-> "object", v |-> entries]

\* value === null || value === undefined || value === '', an array of length 0, or
\* an object without keys
IsEmptyValue(value) ==
  \/ value.t = "null"
  \/ value.t = "string" /\ Len(value.v) = 0
  \/ value.t \in {"array", "object"} /\ Len(value.v) = 0

\* the filter of removeEmptyValues on the items of an array
KeepItem(item) ==
  IF item.t \in {"array", "object"} THEN Len(item.v) > 0
  ELSE item.t # "null" /\ ~(item.t = "string" /\ Len(item.v) = 0)

\* removeEmptyValues(obj): a property is tested as it is, before it is cleaned
RECURSIVE removeEmptyValues(_)
RECURSIVE CleanItems(_)
RECURSIVE CleanEntries(_)
removeEmptyValues(obj) ==
  IF obj.t = "array" THEN JsArray(SelectSeq(CleanItems(obj.v), KeepItem))
  ELSE IF obj.t # "object" THEN obj
  ELSE JsObject(CleanEntries(obj.v))
CleanItems(items) ==
  IF Len(items) = 0 THEN <<>>
  ELSE <<removeEmptyValues(Head(items))>> \o CleanItems(Tail(items))
CleanEntries(entries) ==
  IF Len(entries) = 0 THEN <<>>
  ELSE (IF IsEmptyValue(Head(entries).value)
        THEN <<>>
        ELSE <<[name |-> Head(entries).name,
                value |-> removeEmptyValues(Head(entries).value)]>>)
       \o CleanEntries(Tail(entries))

\* JSON.stringify(value, null, 0)
RECURSIVE stringify(_)
RECURSIVE StringifyItems(_)
RECURSIVE StringifyEntries(_)
stringify(value) ==
  CASE value.t = "null" -> Chars("null")
    [] value.t = "string" -> JsonString(value.v)
    [] value.t = "array" -> <<"[">> \o StringifyItems(value.v) \o <<"]">>
    [] value.t = "object" -> <<"{">> \o StringifyEntries(value.v) \o <<"}">>
StringifyItems(items) ==
  IF Len(items) = 0 THEN <<>>
  ELSE stringify(Head(items)) \o (IF Len(items) > 1 THEN <<",">> ELSE <<>>)
       \o StringifyItems(Tail(items))
StringifyEntries(entries) ==
  IF Len(entries) = 0 THEN <<>>
  ELSE JsonString(Chars(Head(entries).name)) \o <<":">> \o stringify(Head(entries).value)
       \o (IF Len(entries) > 1 THEN <<",">> ELSE <<>>)
       \o StringifyEntries(Tail(entries))

\* toJSON(data, {indent: 0, excludeEmpty}): the data that is serialized and the
\* string returned; sortKeys is not among the options of the model
toJSON(data, excludeEmpty) ==
  LET formattedData == IF excludeEmpty THEN removeEmptyValues(data) ELSE data
  IN [formattedData |-> formattedData, json |-> stringify(formattedData)]

----------------------------------------------------------------------------
(* IceblueSpecificParser: metadata *)

\* the element matches meta[name="${name}"], meta[property="${name}"]
MatchesMeta(el, name) ==
  \/ getAttribute(el, "name") # Null /\ getAttribute(el, "name").chars = name
  \/ getAttribute(el, "property") # Null /\ getAttribute(el, "property").chars = name

\* document.querySelector of that selector list: the first element, in document
\* order, that matches one of the two selectors
QueryMeta(document, name) ==
  LET found == SelectSeq(querySelectorAll(document, "META"), LAMBDA el : MatchesMeta(el, name))
  IN IF Len(found) = 0 THEN Null ELSE found[1]

\* getMetaContent(document, name)
getMetaContent(document, name) ==
  LET meta == QueryMeta(document, name)
  IN IF meta = Null THEN <<>> ELSE AttrOrEmpty(meta, "content")

----------------------------------------------------------------------------
(* Formatter.toText, Formatter.toXML and IceblueHtmlParser.format *)

\* '  '.repeat(depth)
RECURSIVE Indent(_)
Indent(depth) == IF depth = 0 THEN <<>> ELSE <<" ", " ">> \o Indent(depth - 1)

\* parts.join(separator)
RECURSIVE JoinWith(_, _)
JoinWith(parts, separator) ==
  IF Len(parts) = 0 THEN <<>>
  ELSE IF Len(parts) = 1 THEN Head(parts)
  ELSE Head(parts) \o separator \o JoinWith(Tail(parts), separator)

\* extractAllText(node, depth) of toText: the parts it pushes
RECURSIVE extractAllText(_, _)
RECURSIVE ExtractAllTextOf(_, _)
extractAllText(node, depth) ==
  IF node = Null THEN <<>>
  ELSE (IF node.type = "text" /\ TruthyStr(node.text)
        THEN <<Indent(depth) \o node.text>> ELSE <<>>)
       \o (IF HasChildren(node) THEN ExtractAllTextOf(node.children, depth + 1) ELSE <<>>)
ExtractAllTextOf(nodes, depth) ==
  IF Len(nodes) = 0 THEN <<>>
  ELSE extractAllText(Head(nodes), depth) \o ExtractAllTextOf(Tail(nodes), depth)

\* toText(data)
toText(data) ==
  IF data = Null THEN <<>>
  ELSE IF "root" \in DOMAIN data /\ data.root # Null
  THEN JoinWith(extractAllText(data.root, 0), <<"\n">>)
  ELSE IF "structure" \in DOMAIN data /\ "root" \in DOMAIN data.structure
          /\ data.structure.root # Null
  THEN JoinWith(extractAllText(data.structure.root, 0), <<"\n">>)
  ELSE <<>>

\* the map of escapeXML
EscapeXmlChar(ch) ==
  CASE ch = "&" -> <<"&", "a", "m", "p", ";">>
    [] ch = "<" -> <<"&", "l", "t", ";">>
    [] ch = ">" -> <<"&", "g", "t", ";">>
    [] ch = "\"" -> <<"&", "q", "u", "o", "t", ";">>
    [] ch = "'" -> <<"&", "a", "p", "o", "s", ";">>
    [] OTHER -> <<ch>>

\* escapeXML(text), text a string
RECURSIVE escapeXML(_)
escapeXML(text) ==
  IF Len(text) = 0 THEN <<>> ELSE EscapeXmlChar(Head(text)) \o escapeXML(Tail(text))

\* formatXMLAttributes(attributes): the keys of the model are valid identifiers
RECURSIVE XmlAttrPairs(_)
XmlAttrPairs(attributes) ==
  IF Len(attributes) = 0 THEN <<>>
  ELSE <<Chars(Head(attributes).name) \o <<"=", "\"">>
         \o escapeXML(Head(attributes).value) \o <<"\"">> >>
       \o XmlAttrPairs(Tail(attributes))
formatXMLAttributes(attributes) ==
  IF Len(attributes) = 0 THEN <<>> ELSE <<" ">> \o JoinWith(XmlAttrPairs(attributes), <<" ">>)

\* nodeToXML(node, indent)
RECURSIVE nodeToXML(_, _)
RECURSIVE NodesToXML(_, _)
nodeToXML(node, indent) ==
  IF node = Null THEN <<>>
  ELSE CASE node.type = "text" -> Indent(indent) \o escapeXML(node.text)
         [] node.type = "element" ->
              LET tag == Chars(node.tag)
                  attributes == formatXMLAttributes(node.attributes)
                  children ==
                    JoinWith(SelectSeq(IF HasChildren(node)
                                       THEN NodesToXML(node.children, indent + 1)
                                       ELSE <<>>,
                                       LAMBDA child : TruthyStr(Trim(child))),
                             <<"\n">>)
              IN IF ~TruthyStr(children)
                 THEN Indent(indent) \o <<"<">> \o tag \o attributes \o <<" ", "/", ">">>
                 ELSE Indent(indent) \o <<"<">> \o tag \o attributes \o <<">", "\n">>
                      \o children \o <<"\n">> \o Indent(indent) \o <<"<", "/">> \o tag
                      \o <<">">>
         [] node.type = "comment" ->
              Indent(indent) \o <<"<", "!", "-", "-", " ">> \o escapeXML(node.text)
              \o <<" ", "-", "-", ">">>
         [] OTHER -> <<>>
NodesToXML(nodes, indent) ==
  IF Len(nodes) = 0 THEN <<>>
  ELSE <<nodeToXML(Head(nodes), indent)>> \o NodesToXML(Tail(nodes), indent)

\* '<?xml version="1.0" encoding="UTF-8"?>'
XmlDeclaration ==
  <<"<", "?", "x", "m", "l", " ", "v", "e", "r", "s", "i", "o", "n", "=",
    "\"", "1", ".", "0", "\"", " ", "e", "n", "c", "o", "d", "i", "n", "g",
    "=", "\"", "U", "T", "F", "-", "8", "\"", "?", ">">>

\* toXML(data)
toXML(data) ==
  IF data = Null \/ "root" \notin DOMAIN data \/ data.root = Null
  THEN XmlDeclaration \o <<"<", "r", "o", "o", "t", ">", "<", "/", "r", "o", "o", "t", ">">>
  ELSE XmlDeclaration \o <<"\n">> \o nodeToXML(data.root, 0)

\* a Node, and the data it is handed over in, as the JSON value that is serialized
RECURSIVE JsOfNode(_)
JsOfNode(node) ==
  JsObject(<<[name |-> "type", value |-> JsString(Chars(node.type))]>>
           \o (IF node.type = "element"
               THEN <<[name |-> "tag", value |-> JsString(Chars(node.tag))],
                      [name |-> "attributes",
                       value |-> JsObject([i \in 1..Len(node.attributes) |->
                                             [name |-> node.attributes[i].name,
                                              value |-> JsString(node.attributes[i].value)]])]>>
               ELSE <<[name |-> "text", value |-> JsString(node.text)]>>)
           \o (IF HasChildren(node)
               THEN <<[name |-> "children",
                       value |-> JsArray([i \in 1..Len(node.children) |->
                                            JsOfNode(node.children[i])])]>>
               ELSE <<>>))
JsOfData(data) ==
  IF "type" \in DOMAIN data THEN JsOfNode(data)
  ELSE IF "root" \in DOMAIN data
  THEN JsObject(<<[name |-> "root", value |-> JsOfNode(data.root)]>>)
  ELSE JsObject(<<[name |-> "structure",
                   value |-> JsObject(<<[name |-> "root",
                                         value |-> JsOfNode(data.structure.root)]>>)],
                  [name |-> "images", value |-> JsArray(<<>>)],
                  [name |-> "links", value |-> JsArray(<<>>)]>>)

FormatToLowerCase_Unchanged(formatName) == formatName

\* format.toLowerCase(), for the names of the model
FormatToLowerCase(formatName) ==
  CASE formatName = "JSON" -> "json"
    [] formatName = "Html" -> "html"
    [] formatName = "Yaml" -> "yaml"
    [] OTHER -> formatName

\* IceblueHtmlParser.format(data, format, {indent: 0}): the string it returns, or the
\* message of the error it throws
format(data, formatName) ==
  LET name == FormatToLowerCase(formatName)
  IN CASE name = "json" -> [threw |-> FALSE, value |-> toJSON(JsOfData(data), FALSE).json]
       [] name = "text" -> [threw |-> FALSE, value |-> toText(data)]
       [] name = "html" -> [threw |-> FALSE, value |-> toHTML(data)]
       [] name = "xml" -> [threw |-> FALSE, value |-> toXML(data)]
       [] OTHER -> [threw |-> TRUE, message |-> <<"Unsupported format: ", formatName>>]

----------------------------------------------------------------------------
(* Validator *)

MAX_TEXT_LENGTH == 10000

HasField(obj, name) == name \in DOMAIN obj

\* the option of that name, undefined (NullNum) when it is not given
NumOption(options, name) ==
  IF \E i \in 1..Len(options) : options[i].name = name
  THEN GetOption(options, name)
  ELSE NullNum

\* new Validator(options): this.options
NewValidator(options) ==
  Spread(<<[name |-> "strict", value |-> GetOption(options, "strict")],
           [name |-> "maxDepth",
            value |-> OrDefault(NumOption(options, "maxDepth"), MAX_DEPTH)],
           [name |-> "maxTextLength",
            value |-> OrDefault(NumOption(options, "maxTextLength"), MAX_TEXT_LENGTH)]>>,
         options)

\* `${n}` for a number that is not negative
RECURSIVE NumberToString(_)
NumberToString(n) ==
  IF n < 10 THEN Digit36(n) ELSE NumberToString(n \div 10) \o Digit36(n % 10)

\* A message is the sequence of the pieces it is concatenated from; the pieces are
\* cut so that two messages are the same text exactly when they are the same
\* sequence
NoProblems == [errors |-> <<>>, warnings |-> <<>>]
Errors(messages) == [errors |-> messages, warnings |-> <<>>]
Both(a, b) == [errors |-> a.errors \o b.errors, warnings |-> a.warnings \o b.warnings]

\* `${kind}[${index}]: ${err}` for every err
Prefixed(kind, index, messages) ==
  [i \in 1..Len(messages) |->
     <<kind>> \o NumberToString(index) \o <<"]", ": ">> \o messages[i]]
PrefixedBoth(kind, index, r) ==
  [errors |-> Prefixed(kind, index, r.errors), warnings |-> Prefixed(kind, index, r.warnings)]

ExceedsMaxDepth_FromMaxDepth(depth, maxDepth) == depth >= maxDepth

\* if (depth > this.options.maxDepth)
ExceedsMaxDepth(depth, maxDepth) == depth > maxDepth

\* validateNode(node, depth), and its forEach over node.children from index on
RECURSIVE validateNode(_, _, _)
RECURSIVE ValidateChildren(_, _, _, _)
validateNode(self, node, depth) ==
  IF node = Null THEN Errors(<< <<"Node must be an object">> >>)
  ELSE IF ExceedsMaxDepth(depth, GetOption(self, "maxDepth"))
  THEN Errors(<< <<"Node depth exceeds maximum depth of ">>
                 \o NumberToString(GetOption(self, "maxDepth")) >>)
  ELSE
    LET type == IF HasField(node, "type") THEN node.type ELSE ""
        typeErrors ==
          IF type = "" THEN << <<"Node missing type field">> >>
          ELSE IF type \notin {"element", "text", "comment", "document"}
          THEN << <<"Invalid node type: ", type>> >>
          ELSE <<>>
        elementErrors ==
          IF type = "element" /\ (~HasField(node, "tag") \/ node.tag = "")
          THEN << <<"Element node missing or invalid tag">> >>
          ELSE <<>>
        textErrors ==
          IF type = "text" /\ ~HasField(node, "text")
          THEN << <<"Text node missing text field">> >>
          ELSE <<>>
        textWarnings ==
          IF type = "text" /\ HasField(node, "text")
             /\ Len(node.text) > GetOption(self, "maxTextLength")
          THEN << <<"Text node text length exceeds recommended maximum of ">>
                  \o NumberToString(GetOption(self, "maxTextLength")) >>
          ELSE <<>>
        own == [errors |-> typeErrors \o elementErrors \o textErrors,
                warnings |-> textWarnings]
    IN IF HasChildren(node)
       THEN Both(own, ValidateChildren(self, node.children, 1, depth))
       ELSE own
ValidateChildren(self, children, i, depth) ==
  IF i > Len(children) THEN NoProblems
  ELSE Both(PrefixedBoth("Child[", i - 1, validateNode(self, children[i], depth + 1)),
            ValidateChildren(self, children, i + 1, depth))

\* validateStructure(structure)
validateStructure(self, structure) ==
  IF HasField(structure, "root") /\ structure.root # Null
  THEN validateNode(self, structure.root, 0)
  ELSE IF GetOption(self, "strict")
  THEN [errors |-> <<>>, warnings |-> << <<"Structure missing root node">> >>]
  ELSE NoProblems

\* validateStats(stats): the numeric fields that are not numbers
RECURSIVE StatsErrors(_, _)
StatsErrors(statsObject, numericFields) ==
  IF Len(numericFields) = 0 THEN <<>>
  ELSE (IF HasField(statsObject, Head(numericFields))
           /\ statsObject[Head(numericFields)] \notin Int
        THEN << <<"Stats ", Head(numericFields), " must be a number">> >>
        ELSE <<>>)
       \o StatsErrors(statsObject, Tail(numericFields))
validateStats(statsObject) ==
  Errors(StatsErrors(statsObject,
                     <<"totalElements", "totalTextLength", "depth", "duration">>))

\* image.width !== undefined && (typeof image.width !== 'number' || image.width < 0)
BadSize(image, field) ==
  /\ HasField(image, field)
  /\ \/ image[field] = Null
     \/ HasField(image[field], "num") /\ image[field].num < 0

\* validateImage(image)
validateImage(image) ==
  Errors((IF ~HasField(image, "src") \/ ~TruthyStr(image.src)
          THEN << <<"Image missing or invalid src field">> >> ELSE <<>>)
         \o (IF BadSize(image, "width")
             THEN << <<"Image width must be a non-negative number">> >> ELSE <<>>)
         \o (IF BadSize(image, "height")
             THEN << <<"Image height must be a non-negative number">> >> ELSE <<>>))

\* validateLink(link)
validateLink(link) ==
  Errors(IF ~HasField(link, "href") \/ ~TruthyStr(link.href)
         THEN << <<"Link missing or invalid href field">> >> ELSE <<>>)

\* data.images.forEach and data.links.forEach, from index i on
RECURSIVE ValidateImages(_, _)
ValidateImages(images, i) ==
  IF i > Len(images) THEN NoProblems
  ELSE Both(PrefixedBoth("Image[", i - 1, validateImage(images[i])),
            ValidateImages(images, i + 1))
RECURSIVE ValidateLinks(_, _)
ValidateLinks(links, i) ==
  IF i > Len(links) THEN NoProblems
  ELSE Both(PrefixedBoth("Link[", i - 1, validateLink(links[i])),
            ValidateLinks(links, i + 1))

\* validateData(data); the data of the model has no metadata
validateData(self, data) ==
  Both(Both(IF HasField(data, "structure") THEN validateStructure(self, data.structure)
            ELSE NoProblems,
            IF HasField(data, "stats") THEN validateStats(data.stats) ELSE NoProblems),
       Both(IF HasField(data, "images") THEN ValidateImages(data.images, 1) ELSE NoProblems,
            IF HasField(data, "links") THEN ValidateLinks(data.links, 1) ELSE NoProblems))

\* validate(result)
validate(self, result) ==
  IF result = Null
  THEN [valid |-> FALSE, errors |-> << <<"Result is null or undefined">> >>,
        warnings |-> <<>>]
  ELSE
    LET success == HasField(result, "success") /\ result.success
        missing == IF ~HasField(result, "success")
                   THEN Errors(<< <<"Missing success field">> >>) ELSE NoProblems
        checked == IF success /\ HasField(result, "data") /\ result.data # Null
                   THEN validateData(self, result.data) ELSE NoProblems
        unexplained ==
          IF ~success /\ ~HasField(result, "error")
          THEN [errors |-> <<>>, warnings |-> << <<"Error result missing error message">> >>]
          ELSE NoProblems
        all == Both(Both(missing, checked), unexplained)
    IN [valid |-> Len(all.errors) = 0, errors |-> all.errors, warnings |-> all.warnings]

----------------------------------------------------------------------------
(* BackendParser *)

\* options.name !== false
NotFalse(options, name) ==
  IF \E i \in 1..Len(options) : options[i].name = name
  THEN GetOption(options, name) # FALSE
  ELSE TRUE

\* new BackendParser(options): this.options and this.validator. No image
\* processor is built: processImages is not among the options of the model
NewBackendParser(options) ==
  LET merged == Spread(<<[name |-> "includeImages", value |-> NotFalse(options, "includeImages")],
                         [name |-> "includeScripts", value |-> GetOption(options, "includeScripts")],
                         [name |-> "includeStyles", value |-> GetOption(options, "includeStyles")],
                         [name |-> "strictMode", value |-> GetOption(options, "strictMode")],
                         [name |-> "validate", value |-> NotFalse(options, "validate")],
                         [name |-> "processImages", value |-> GetOption(options, "processImages")]>>,
                       options)
  IN [options |-> merged,
      validator |-> NewValidator(<<[name |-> "strict",
                                    value |-> GetOption(merged, "strictMode")]>>)]

\* errors.join(', ')
RECURSIVE Join(_)
Join(messages) ==
  IF Len(messages) = 0 THEN <<>>
  ELSE IF Len(messages) = 1 THEN Head(messages)
  ELSE Head(messages) \o <<", ">> \o Join(Tail(messages))

Downgrades_WithoutStrictMode(options, validation) == ~validation.valid

\* if (options.strictMode && !validation.valid)
Downgrades(options, validation) == GetOption(options, "strictMode") /\ ~validation.valid

\* BackendParser.parse from its await of this.parser.parse to its return
backendParseEnd(self, options, result, startTime, t) ==
  LET validation == validate(self.validator, result)
      attached == [validation |-> validation] @@ result
      validated ==
        IF GetOption(options, "validate") /\ result.success
        THEN IF Downgrades(options, validation)
             THEN [error |-> <<"Validation failed: ">> \o Join(validation.errors),
                   errorCode |-> "VALIDATION_ERROR"]
                  @@ [attached EXCEPT !.success = FALSE]
             ELSE attached
        ELSE result
  IN [validated EXCEPT !.duration = t - startTime]

----------------------------------------------------------------------------
(* The DOM engine: parsing the HTML that the formatter writes *)

\* str has prefix at index i
StartsWith(str, i, prefix) ==
  i + Len(prefix) - 1 <= Len(str) /\ SubSeq(str, i, i + Len(prefix) - 1) = prefix

\* the first index from i on where prefix starts, Len(str) + 1 when there is none
RECURSIVE Find(_, _, _)
Find(str, i, prefix) ==
  IF i > Len(str) THEN Len(str) + 1
  ELSE IF StartsWith(str, i, prefix) THEN i
  ELSE Find(str, i + 1, prefix)

\* the character references that the engine decodes in text and attribute values
CharRefs ==
  {[ref |-> <<"&", "a", "m", "p", ";">>, ch |-> "&"],
   [ref |-> <<"&", "l", "t", ";">>, ch |-> "<"],
   [ref |-> <<"&", "g", "t", ";">>, ch |-> ">"],
   [ref |-> <<"&", "q", "u", "o", "t", ";">>, ch |-> "\""],
   [ref |-> <<"&", "#", "0", "3", "9", ";">>, ch |-> "'"]}

RECURSIVE DecodeCharRefs(_, _)
DecodeCharRefs(str, i) ==
  IF i > Len(str) THEN <<>>
  ELSE IF \E r \in CharRefs : StartsWith(str, i, r.ref)
  THEN LET r == CHOOSE r \in CharRefs : StartsWith(str, i, r.ref)
       IN <<r.ch>> \o DecodeCharRefs(str, i + Len(r.ref))
  ELSE <<str[i]>> \o DecodeCharRefs(str, i + 1)

\* the names the engine reads, and the tagName it gives an element
KnownNames ==
  {"html", "head", "body", "div", "br", "p", "a", "img", "id", "class", "src", "href"}
NameOf(chars) == CHOOSE name \in KnownNames : Chars(name) = chars
TagNameOf(name) ==
  CASE name = "html" -> "HTML" [] name = "head" -> "HEAD" [] name = "body" -> "BODY"
    [] name = "div" -> "DIV" [] name = "br" -> "BR" [] name = "p" -> "P"
    [] name = "a" -> "A" [] name = "img" -> "IMG"

\* the attributes of a start tag: name="value" pairs, each after one space
RECURSIVE ParseAttributes(_, _)
ParseAttributes(str, i) ==
  IF i > Len(str) \/ ~StartsWith(str, i, <<" ">>) \/ StartsWith(str, i, <<" ", "/">>)
  THEN <<>>
  ELSE LET eq == Find(str, i + 1, <<"=">>)
           quote == Find(str, eq + 2, <<"\"">>)
       IN <<Attr(NameOf(SubSeq(str, i + 1, eq - 1)),
                 DecodeCharRefs(SubSeq(str, eq + 2, quote - 1), 1))>>
          \o ParseAttributes(str, quote + 1)

\* the nodes the engine builds from index i on, up to the end tag of their
\* parent, and the index after them
RECURSIVE ParseNodes(_, _)
RECURSIVE ParseNode(_, _)
ParseNodes(str, i) ==
  IF i > Len(str) \/ StartsWith(str, i, <<"<", "/">>) THEN [nodes |-> <<>>, next |-> i]
  ELSE LET one == ParseNode(str, i)
           rest == ParseNodes(str, one.next)
       IN [nodes |-> <<one.node>> \o rest.nodes, next |-> rest.next]
ParseNode(str, i) ==
  IF StartsWith(str, i, <<"<", "!", "-", "-">>)
  THEN LET end == Find(str, i + 4, <<"-", "-", ">">>)
       IN [node |-> Comment(SubSeq(str, i + 4, end - 1)), next |-> end + 3]
  ELSE IF str[i] = "<"
  THEN LET close == Find(str, i, <<">">>)
           inner == SubSeq(str, i + 1, close - 1)
           nameEnd == Find(inner, 1, <<" ">>)
           name == NameOf(SubSeq(inner, 1, nameEnd - 1))
           attrs == ParseAttributes(inner, nameEnd)
       IN IF isSelfClosingTag(name)
          THEN [node |-> Element(TagNameOf(name), attrs, <<>>), next |-> close + 1]
          ELSE LET kids == ParseNodes(str, close + 1)
                   end == Find(str, kids.next, <<">">>)
               IN [node |-> Element(TagNameOf(name), attrs, kids.nodes), next |-> end + 1]
  ELSE LET end == Find(str, i, <<"<">>)
       IN [node |-> TextNode(DecodeCharRefs(SubSeq(str, i, end - 1), 1)), next |-> end]

\* the nodes the engine puts in the body for an HTML fragment
parseFromString(str) == ParseNodes(str, 1).nodes

----------------------------------------------------------------------------
(* The cache on its own: any sequence of calls, any advance of the clock *)

EmptyString == <<>>
Values == {[v |-> 1], [v |-> 2]}
TtlArgs == {NullNum, 0, 1}

\* the keys in the Map
KeysOf(c) == {c[i].key : i \in 1..Len(c)}

\* recency after a call that left the Map as c and accessed key k (a set, or a
\* get that hit); touched is FALSE for every other call
RecencyAfter(c, k, touched) ==
  LET kept == SelectSeq(recency, LAMBDA x : x \in KeysOf(c) /\ ~(touched /\ x = k))
  IN IF touched /\ k \in KeysOf(c) THEN Append(kept, k) ELSE kept

\* lastOp after a call: op is the method and key its argument. After a set: data,
\* ttl and at are its arguments and its clock reading. After a get: ret is the
\* value returned and when its clock reading; data, ttl and at are those of the
\* set call on the same key, when nothing but get calls that hit on that key came
\* between that set call and this get call (nothing at all: direct)
NoOp == [op |-> "new", key |-> EmptyString, data |-> Null, ttl |-> NullNum,
         at |-> NullNum, ret |-> Null, when |-> NullNum, direct |-> FALSE]

OpSet(k, d, ttl) == [NoOp EXCEPT !.op = "set", !.key = k, !.data = d, !.ttl = ttl, !.at = now]

OpGet(k, ret) ==
  IF /\ lastOp.key = k
     /\ \/ lastOp.op = "set"
        \/ lastOp.op = "get" /\ lastOp.at # NullNum /\ lastOp.ret # Null
  THEN [lastOp EXCEPT !.op = "get", !.ret = ret, !.when = now,
                      !.direct = (lastOp.op = "set")]
  ELSE [NoOp EXCEPT !.op = "get", !.key = k, !.ret = ret, !.when = now]

OpOther(name) == [NoOp EXCEPT !.op = name]

\* new CacheManager({maxSize: m, ttl: ttl, enabled: en}), NullNum for an option left out,
\* and new IceblueHtmlParser()
Constructed(m, ttl, en) ==
  /\ cache = <<>>
  /\ maxSize = NewMaxSize(m)
  /\ defaultTTL = NewDefaultTTL(ttl)
  /\ enabled = en
  /\ now = 0
  /\ lastOp = NoOp
  /\ recency = <<>>
  /\ collectedImages = NewInstance.collectedImages
  /\ collectedLinks = NewInstance.collectedLinks
  /\ stats = NewInstance.stats
  /\ currentDepth = NewInstance.currentDepth
  /\ calls = <<>>
  /\ microtasks = <<>>

\* no tree has been handed to a traverser, a formatter or a validator
NoTree == tree = Null /\ answer = Null
NoBackend == backend = Null

Get(k) ==
  LET r == get(cache, enabled, k, now) IN
  /\ cache' = r.cache
  /\ lastOp' = OpGet(k, r.ret)
  /\ recency' = RecencyAfter(r.cache, k, r.ret # Null)
  /\ UNCHANGED <<maxSize, defaultTTL, enabled, now, parserVars, calls, microtasks, hasSubtle, backend, treeVars>>

Set(k, d, ttl) ==
  LET c == set(cache, maxSize, defaultTTL, enabled, k, d, ttl, now) IN
  /\ cache' = c
  /\ lastOp' = OpSet(k, d, ttl)
  /\ recency' = RecencyAfter(c, k, enabled)
  /\ UNCHANGED <<maxSize, defaultTTL, enabled, now, parserVars, calls, microtasks, hasSubtle, backend, treeVars>>

Has(k) ==
  LET r == has(cache, k, now) IN
  /\ cache' = r.cache
  /\ lastOp' = OpOther("has")
  /\ recency' = RecencyAfter(r.cache, k, FALSE)
  /\ UNCHANGED <<maxSize, defaultTTL, enabled, now, parserVars, calls, microtasks, hasSubtle, backend, treeVars>>

Delete(k) ==
  /\ cache' = MapDelete(cache, k)
  /\ lastOp' = OpOther("delete")
  /\ recency' = RecencyAfter(MapDelete(cache, k), k, FALSE)
  /\ UNCHANGED <<maxSize, defaultTTL, enabled, now, parserVars, calls, microtasks, hasSubtle, backend, treeVars>>

Clear ==
  /\ cache' = <<>>
  /\ lastOp' = OpOther("clear")
  /\ recency' = <<>>
  /\ UNCHANGED <<maxSize, defaultTTL, enabled, now, parserVars, calls, microtasks, hasSubtle, backend, treeVars>>

Cleanup ==
  LET r == cleanup(cache, now) IN
  /\ cache' = r.cache
  /\ lastOp' = OpOther("cleanup")
  /\ recency' = RecencyAfter(r.cache, EmptyString, FALSE)
  /\ UNCHANGED <<maxSize, defaultTTL, enabled, now, parserVars, calls, microtasks, hasSubtle, backend, treeVars>>

\* the caller assigns the public field enabled
SetEnabled(b) ==
  /\ enabled # b
  /\ enabled' = b
  /\ lastOp' = OpOther("enabled")
  /\ UNCHANGED <<cache, maxSize, defaultTTL, now, recency, parserVars, calls, microtasks, hasSubtle, backend, treeVars>>

\* the clock advances by one millisecond
Tick ==
  /\ now < MaxNow
  /\ now' = now + 1
  /\ UNCHANGED <<cache, maxSize, defaultTTL, enabled, lastOp, recency, parserVars, calls, microtasks, hasSubtle, backend, treeVars>>

\* the clock advances by more than the default TTL
Jump ==
  /\ now <= MaxNow
  /\ now' = now + DEFAULT_TTL + 1
  /\ UNCHANGED <<cache, maxSize, defaultTTL, enabled, lastOp, recency, parserVars, calls, microtasks, hasSubtle, backend, treeVars>>

\* A cache of one entry over two keys, one of them the empty string,
\* constructed without a ttl option
Keys == {EmptyString, <<"a">>}
Capacities == {1}

InitCache ==
  /\ \E m \in Capacities, ttl \in {NullNum, 0}, en \in BOOLEAN : Constructed(m, ttl, en)
  /\ hasSubtle = TRUE /\ NoBackend
  /\ NoTree

NextCache ==
  \/ \E k \in Keys : Get(k)
  \/ \E k \in Keys, d \in Values, ttl \in TtlArgs : Set(k, d, ttl)
  \/ \E k \in Keys : Has(k)
  \/ \E k \in Keys : Delete(k)
  \/ Clear
  \/ Cleanup
  \/ \E b \in BOOLEAN : SetEnabled(b)
  \/ Tick
  \/ Jump

SpecCache == InitCache /\ [][NextCache]_vars

\* A cache of two entries over three keys, none of them empty
LruKeys == {<<"A">>, <<"B">>, <<"C">>}

InitLru == Constructed(2, NullNum, TRUE) /\ hasSubtle = TRUE /\ NoBackend /\ NoTree

NextLru ==
  \/ \E k \in LruKeys : Get(k)
  \/ \E k \in LruKeys, d \in Values, ttl \in {NullNum, 1} : Set(k, d, ttl)
  \/ \E k \in LruKeys : Has(k)
  \/ \E k \in LruKeys : Delete(k)
  \/ Clear
  \/ Cleanup
  \/ Tick

SpecLru == InitLru /\ [][NextLru]_vars

----------------------------------------------------------------------------
(* The parse calls: each call runs to its await, and its continuation runs   *)
(* later, after the continuations queued before it                          *)

This ==
  [collectedImages |-> collectedImages, collectedLinks |-> collectedLinks,
   stats |-> stats, currentDepth |-> currentDepth]

SetThis(self) ==
  /\ collectedImages' = self.collectedImages
  /\ collectedLinks' = self.collectedLinks
  /\ stats' = self.stats
  /\ currentDepth' = self.currentDepth

\* the calls that have not returned
InFlight == {i \in 1..Len(calls) : calls[i].pc # "done"}

\* a call as it starts. pc is where it stands: "parseDocument" when suspended at the
\* await in IceblueHtmlParser.parse, "parse" when suspended at the await in
\* IceblueParser.parse, "done" when it has returned ret. History: extracted tells
\* whether the call ran parseDocument, overlap is the set of calls that had not
\* returned when this one started
NewCall(via, html, options) ==
  [via |-> via, html |-> html, options |-> options, key |-> EmptyString,
   pc |-> "done", startTime |-> now, result |-> Null, ret |-> Null,
   extracted |-> FALSE, overlap |-> InFlight]

\* IceblueHtmlParser.parse(html, parseOptions), called directly, up to its await
HtmlParserParse(html, parseOptions) ==
  LET b == parseBegin(This, html, parseOptions, now)
      call == [NewCall("IceblueHtmlParser", html, parseOptions) EXCEPT
                 !.pc = IF b.suspended THEN "parseDocument" ELSE "done",
                 !.result = b.result, !.ret = b.ret, !.extracted = b.suspended]
  IN /\ Len(calls) < MaxCalls
     /\ SetThis(b.self)
     /\ calls' = Append(calls, call)
     /\ microtasks' = IF b.suspended THEN Append(microtasks, Len(calls) + 1) ELSE microtasks
     /\ UNCHANGED <<cacheVars, hasSubtle, backend, treeVars>>

\* IceblueHtmlParser.parse from its await to its return
HtmlParserResume ==
  /\ Len(microtasks) > 0
  /\ calls[Head(microtasks)].pc = "parseDocument"
  /\ LET i == Head(microtasks)
         e == parseEnd(This, calls[i].startTime, calls[i].result, now)
         awaited == calls[i].via # "IceblueHtmlParser"
     IN /\ SetThis(e.self)
        /\ calls' = [calls EXCEPT ![i].ret = e.ret,
                                  ![i].pc = IF awaited THEN "parse" ELSE "done"]
        /\ microtasks' = IF awaited THEN Append(Tail(microtasks), i) ELSE Tail(microtasks)
  /\ UNCHANGED <<cacheVars, hasSubtle, backend, treeVars>>

\* IceblueParser.parse(html, options) up to its return on a hit, up to its await on
\* a miss
IceblueParserParse(html, options) ==
  LET parseOptions == Spread(DefaultOptions, options)
      cacheKey == generateKey(html, parseOptions, hasSubtle)
      g == get(cache, enabled, cacheKey, now)
      b == parseBegin(This, html, parseOptions, now)
      call == [NewCall("IceblueParser", html, options) EXCEPT !.key = cacheKey]
  IN /\ Len(calls) < MaxCachedCalls
     /\ cache' = g.cache
     /\ lastOp' = OpGet(cacheKey, g.ret)
     /\ recency' = RecencyAfter(g.cache, cacheKey, g.ret # Null)
     /\ IF CacheHit(g.ret)
        THEN /\ calls' = Append(calls, [call EXCEPT !.ret = [cached |-> TRUE] @@ g.ret])
             /\ UNCHANGED <<parserVars, microtasks>>
        ELSE /\ SetThis(b.self)
             /\ calls' = Append(calls,
                  [call EXCEPT !.pc = IF b.suspended THEN "parseDocument" ELSE "parse",
                               !.result = b.result, !.ret = b.ret,
                               !.extracted = b.suspended])
             /\ microtasks' = Append(microtasks, Len(calls) + 1)
     /\ UNCHANGED <<maxSize, defaultTTL, enabled, now, hasSubtle, backend, treeVars>>

\* IceblueParser.parse from its await to its return
IceblueParserResume ==
  /\ Len(microtasks) > 0
  /\ calls[Head(microtasks)].pc = "parse"
  /\ calls[Head(microtasks)].via = "IceblueParser"
  /\ LET i == Head(microtasks)
         result == calls[i].ret
         stored == set(cache, maxSize, defaultTTL, enabled, calls[i].key, result, NullNum, now)
     IN /\ IF result.success
           THEN /\ cache' = stored
                /\ lastOp' = OpSet(calls[i].key, result, NullNum)
                /\ recency' = RecencyAfter(stored, calls[i].key, enabled)
           ELSE UNCHANGED <<cache, lastOp, recency>>
        /\ calls' = [calls EXCEPT ![i].pc = "done"]
        /\ microtasks' = Tail(microtasks)
  /\ UNCHANGED <<maxSize, defaultTTL, enabled, now, parserVars, hasSubtle, backend, treeVars>>

TextOnly == <<[name |-> "textOnly", value |-> TRUE]>>
NoImages == <<[name |-> "includeImages", value |-> FALSE]>>

\* One IceblueHtmlParser, called directly
HtmlParserInputs ==
  {<<HtmlEmpty, <<>>>>, <<HtmlImg, <<>>>>, <<HtmlLink, <<>>>>, <<HtmlImg, NoImages>>,
   <<HtmlImg, TextOnly>>}

InitHtmlParser == Constructed(NullNum, NullNum, TRUE) /\ hasSubtle = TRUE /\ NoBackend /\ NoTree

NextHtmlParser ==
  \/ \E in \in HtmlParserInputs : HtmlParserParse(in[1], in[2])
  \/ HtmlParserResume
  \/ Tick

SpecHtmlParser == InitHtmlParser /\ [][NextHtmlParser]_vars

\* One IceblueParser, in either environment
ParserInputs ==
  {<<HtmlEmpty, <<>>>>, <<HtmlAa, <<>>>>, <<HtmlBB, <<>>>>, <<HtmlAa, TextOnly>>}

InitParser == Constructed(NullNum, NullNum, TRUE) /\ hasSubtle \in BOOLEAN /\ NoBackend /\ NoTree

NextParser ==
  \/ \E in \in ParserInputs : IceblueParserParse(in[1], in[2])
  \/ HtmlParserResume
  \/ IceblueParserResume
  \/ Clear
  \/ Jump

SpecParser == InitParser /\ [][NextParser]_vars

\* BackendParser.parse(html, parseOptions) up to its await of this.parser.parse,
\* which runs up to its own await or, for a rejected input, to its return
BackendParserParse(html, parseOptions) ==
  LET options == Spread(backend.options, parseOptions)
      b == parseBegin(This, html, options, now)
      call == [NewCall("BackendParser", html, parseOptions) EXCEPT
                 !.pc = IF b.suspended THEN "parseDocument" ELSE "parse",
                 !.result = b.result, !.ret = b.ret, !.extracted = b.suspended]
  IN /\ Len(calls) < MaxCachedCalls
     /\ SetThis(b.self)
     /\ calls' = Append(calls, call)
     /\ microtasks' = Append(microtasks, Len(calls) + 1)
     /\ UNCHANGED <<cacheVars, hasSubtle, backend, treeVars>>

\* BackendParser.parse from its await to its return
BackendParserResume ==
  /\ Len(microtasks) > 0
  /\ calls[Head(microtasks)].pc = "parse"
  /\ calls[Head(microtasks)].via = "BackendParser"
  /\ LET i == Head(microtasks)
         options == Spread(backend.options, calls[i].options)
     IN calls' = [calls EXCEPT
                    ![i].ret = backendParseEnd(backend, options, calls[i].ret,
                                               calls[i].startTime, now),
                    ![i].pc = "done"]
  /\ microtasks' = Tail(microtasks)
  /\ UNCHANGED <<cacheVars, parserVars, hasSubtle, backend, treeVars>>

StrictMode == <<[name |-> "strictMode", value |-> TRUE]>>
NoValidate == <<[name |-> "validate", value |-> FALSE]>>

\* One BackendParser, built with or without strictMode and validate
BackendInputs ==
  {<<HtmlEmpty, <<>>>>, <<HtmlImg, <<>>>>, <<HtmlLink, <<>>>>, <<HtmlImg, StrictMode>>,
   <<HtmlImg, NoValidate>>, <<HtmlImg, NoImages>>}

InitBackend ==
  /\ Constructed(NullNum, NullNum, TRUE)
  /\ hasSubtle = TRUE
  /\ NoTree
  /\ \E options \in {<<>>, StrictMode, NoValidate} : backend = NewBackendParser(options)

NextBackend ==
  \/ \E in \in BackendInputs : BackendParserParse(in[1], in[2])
  \/ HtmlParserResume
  \/ BackendParserResume

SpecBackend == InitBackend /\ [][NextBackend]_vars

----------------------------------------------------------------------------
(* BackendParser.parseUrl over ProxyService.fetchHTML *)

\* ProxyService.fetchHTML(url) once this.fetch has returned response: it returns
\* response.data, a string, or throws an error with the message of the response
fetchHTML(response) ==
  IF ~response.success
  THEN [threw |-> TRUE, message |-> response.error]
  ELSE [threw |-> FALSE, value |-> Str(response.data)]

\* value.success for the value fetchHTML returned: a string has no such property
SuccessOf(value) == IF value.type = "string" THEN FALSE ELSE value.success

\* parseUrl from its await of fetchHTML: the value it returns, or Null when it goes
\* on to this.parse(htmlResult.data, {...parseOptions, url})
parseUrlAfterFetch(fetched, startTime, t) ==
  IF fetched.threw
  THEN [success |-> FALSE, error |-> fetched.message, errorCode |-> "PARSE_FAILED",
        duration |-> t - startTime]
  ELSE IF ~SuccessOf(fetched.value)
  THEN [success |-> FALSE, error |-> "Failed to fetch HTML", errorCode |-> "NETWORK_ERROR",
        duration |-> t - startTime]
  ELSE Null

\* what this.fetch returns for a url: the page, or the failure of the request
Urls == {"http://a", "http://b"}
Responses ==
  {[success |-> TRUE, data |-> HtmlImg.chars], [success |-> TRUE, data |-> HtmlLink.chars],
   [success |-> FALSE, error |-> "ECONNREFUSED"], [success |-> FALSE, error |-> "HTTP 404"]}

\* BackendParser.parseUrl(url) up to its await of this.proxyService.fetchHTML
BackendParserParseUrl(url) ==
  /\ Len(calls) < MaxCachedCalls
  /\ calls' = Append(calls, [url |-> url, response |-> Null]
                            @@ [NewCall("BackendParser.parseUrl", Null, <<>>) EXCEPT
                                  !.pc = "fetchHTML"])
  /\ UNCHANGED <<cacheVars, parserVars, microtasks, hasSubtle, backend, treeVars>>

\* the request of call i ends with response, and parseUrl runs from its await to its
\* return, or to the await of this.parse
FetchSettles(i, response) ==
  /\ i \in 1..Len(calls)
  /\ calls[i].pc = "fetchHTML"
  /\ LET fetched == fetchHTML(response)
         ret == parseUrlAfterFetch(fetched, calls[i].startTime, now)
         options == Spread(backend.options, <<[name |-> "url", value |-> calls[i].url]>>)
         b == parseBegin(This, fetched.value.data, options, now)
     IN IF ret # Null
        THEN /\ calls' = [calls EXCEPT ![i].response = response, ![i].ret = ret,
                                       ![i].pc = "done"]
             /\ UNCHANGED <<parserVars, microtasks>>
        ELSE /\ SetThis(b.self)
             /\ calls' = [calls EXCEPT ![i].response = response, ![i].result = b.result,
                                       ![i].ret = b.ret, ![i].extracted = b.suspended,
                                       ![i].pc = IF b.suspended THEN "parseDocument"
                                                 ELSE "parse"]
             /\ microtasks' = Append(microtasks, i)
  /\ UNCHANGED <<cacheVars, hasSubtle, backend, treeVars>>

NextUrl ==
  \/ \E url \in Urls : BackendParserParseUrl(url)
  \/ \E i \in 1..MaxCachedCalls, response \in Responses : FetchSettles(i, response)

SpecUrl == InitBackend /\ [][NextUrl]_vars

----------------------------------------------------------------------------
(* ProxyService: the response interceptor that re-sends a failed request *)

\* config.proxy.retries
PROXY_RETRIES == 2

\* new ProxyService(options): this.options, of which only retries matters here
NewProxyService(options) ==
  Spread(<<[name |-> "retries",
            value |-> OrDefault(NumOption(options, "retries"), PROXY_RETRIES)]>>,
         options)

\* config && config.__retryCount < this.options.retries: retryCount is NullNum while
\* the property is undefined, and undefined < n is false for every n
ShouldRetry(config, retries) ==
  /\ config # Null
  /\ config.retryCount # NullNum
  /\ config.retryCount < retries

\* config.__retryCount = config.__retryCount || 0; config.__retryCount += 1
NextRetryCount(config) == (IF config.retryCount = NullNum THEN 0 ELSE config.retryCount) + 1

\* the rejection handler of the response interceptor, for the error of a request
\* sent with config: the request is sent again after delay ms, or the error is
\* passed on to the caller
onRejected(config, retries) ==
  IF ShouldRetry(config, retries)
  THEN [retry |-> TRUE, config |-> [config EXCEPT !.retryCount = NextRetryCount(config)],
        delay |-> NextRetryCount(config) * 1000]
  ELSE [retry |-> FALSE, config |-> config]

\* the options a service is built with, and the __retryCount a caller passes in the
\* request options, NullNum when it passes none
ProxyOptions == {<<>>, <<[name |-> "retries", value |-> 0]>>, <<[name |-> "retries", value |-> 1]>>}
RetryCounts == {NullNum, 0}

\* this.axiosInstance.get(url, config): the first attempt is sent
ProxyGet(retryCount) ==
  /\ Len(calls) < MaxCachedCalls
  /\ calls' = Append(calls, [via |-> "ProxyService", config |-> [retryCount |-> retryCount],
                             attempts |-> 1, waits |-> <<>>, pc |-> "sent"])
  /\ UNCHANGED <<cacheVars, parserVars, microtasks, hasSubtle, backend, treeVars>>

\* the attempt in flight of request i gets its response
AttemptSucceeds(i) ==
  /\ i \in 1..Len(calls)
  /\ calls[i].pc = "sent"
  /\ calls' = [calls EXCEPT ![i].pc = "resolved"]
  /\ UNCHANGED <<cacheVars, parserVars, microtasks, hasSubtle, backend, treeVars>>

\* the attempt in flight of request i fails, with an error that carries the config
\* of the request, and the interceptor runs up to its await of this.delay or to
\* its rejection
AttemptFails(i) ==
  /\ i \in 1..Len(calls)
  /\ calls[i].pc = "sent"
  /\ LET r == onRejected(calls[i].config, GetOption(backend, "retries"))
     IN calls' = IF r.retry
                 THEN [calls EXCEPT ![i].config = r.config,
                                    ![i].waits = Append(@, r.delay),
                                    ![i].pc = "delay"]
                 ELSE [calls EXCEPT ![i].pc = "rejected"]
  /\ UNCHANGED <<cacheVars, parserVars, microtasks, hasSubtle, backend, treeVars>>

\* the delay of request i ends and the interceptor sends the request again
DelayEnds(i) ==
  /\ i \in 1..Len(calls)
  /\ calls[i].pc = "delay"
  /\ calls' = [calls EXCEPT ![i].attempts = @ + 1, ![i].pc = "sent"]
  /\ UNCHANGED <<cacheVars, parserVars, microtasks, hasSubtle, backend, treeVars>>

InitProxy ==
  /\ Constructed(NullNum, NullNum, TRUE)
  /\ hasSubtle = TRUE
  /\ NoTree
  /\ \E options \in ProxyOptions : backend = NewProxyService(options)

NextProxy ==
  \/ \E retryCount \in RetryCounts : ProxyGet(retryCount)
  \/ \E i \in 1..MaxCachedCalls : AttemptSucceeds(i)
  \/ \E i \in 1..MaxCachedCalls : AttemptFails(i)
  \/ \E i \in 1..MaxCachedCalls : DelayEnds(i)

SpecProxy == InitProxy /\ [][NextProxy]_vars

----------------------------------------------------------------------------
(* One DomTraverser on a DOM that grows node by node *)

\* the number of nodes of a DOM tree
RECURSIVE DomSize(_)
RECURSIVE DomSizeAll(_)
DomSize(node) == 1 + DomSizeAll(node.childNodes)
DomSizeAll(nodes) == IF Len(nodes) = 0 THEN 0 ELSE DomSize(Head(nodes)) + DomSizeAll(Tail(nodes))

\* the paths, as child indices from the root, of the elements of a DOM tree
RECURSIVE DomElementPaths(_)
DomElementPaths(node) ==
  IF node.nodeType # 1 THEN {}
  ELSE {<<>>} \cup UNION {{<<i>> \o p : p \in DomElementPaths(node.childNodes[i])} :
                           i \in 1..Len(node.childNodes)}

\* parent.appendChild(child), parent being the element at path
RECURSIVE appendChild(_, _, _)
appendChild(node, path, child) ==
  IF Len(path) = 0 THEN [node EXCEPT !.childNodes = Append(@, child)]
  ELSE [node EXCEPT !.childNodes[Head(path)] = appendChild(@, Tail(path), child)]

\* the nodes a DOM grows by
DomLeaves ==
  {Element("DIV", <<>>, <<>>), TextNode(<<"t">>), TextNode(<<" ">>), Comment(<<"c">>)}

\* new DomTraverser({maxDepth: d}).maxDepth
NewTraverserMaxDepth(d) == OrDefault(d, TRAVERSER_MAX_DEPTH)

\* the DOM engine appends a node to the document
AppendChild(path, child) ==
  /\ DomSize(tree) < MaxNodes
  /\ path \in DomElementPaths(tree)
  /\ tree' = appendChild(tree, path, child)
  /\ answer' = Null
  /\ UNCHANGED <<cacheVars, parserVars, calls, microtasks, hasSubtle, backend>>

\* new DomTraverser({maxDepth: d}).traverse(tree)
Traverse(d) ==
  /\ answer' = [op |-> "traverse", maxDepth |-> d,
                result |-> traverse(tree, 0, NewTraverserMaxDepth(d))]
  /\ UNCHANGED <<cacheVars, parserVars, calls, microtasks, hasSubtle, backend, tree>>

InitTraverser ==
  /\ Constructed(NullNum, NullNum, TRUE)
  /\ hasSubtle = TRUE /\ NoBackend
  /\ tree = Element("DIV", <<>>, <<>>)
  /\ answer = Null

NextTraverser ==
  \/ \E path \in DomElementPaths(tree), child \in DomLeaves : AppendChild(path, child)
  \/ \E d \in 0..MaxLimit : Traverse(d)

SpecTraverser == InitTraverser /\ [][NextTraverser]_vars

----------------------------------------------------------------------------
(* One Formatter on a Node tree that grows node by node *)

\* the number of nodes of an emitted tree
RECURSIVE NodeSize(_)
RECURSIVE NodeSizeAll(_)
NodeSize(n) == 1 + (IF HasChildren(n) THEN NodeSizeAll(n.children) ELSE 0)
NodeSizeAll(nodes) ==
  IF Len(nodes) = 0 THEN 0 ELSE NodeSize(Head(nodes)) + NodeSizeAll(Tail(nodes))

\* the paths, as child indices from the root, of the elements of an emitted tree
\* that may have children
RECURSIVE NodeElementPaths(_)
NodeElementPaths(n) ==
  IF n.type # "element" \/ isSelfClosingTag(n.tag) THEN {}
  ELSE {<<>>} \cup
       (IF HasChildren(n)
        THEN UNION {{<<i>> \o p : p \in NodeElementPaths(n.children[i])} :
                     i \in 1..Len(n.children)}
        ELSE {})

\* children.push(child) on the element at path
RECURSIVE pushChild(_, _, _)
pushChild(n, path, child) ==
  IF Len(path) = 0
  THEN IF HasChildren(n) THEN [n EXCEPT !.children = Append(@, child)]
       ELSE n @@ [children |-> <<child>>]
  ELSE [n EXCEPT !.children[Head(path)] = pushChild(@, Tail(path), child)]

\* the trees a caller starts from, and the nodes a tree grows by
NodeRoots ==
  {ElementNode("div", <<>>), ElementNode("br", <<>>) @@ [children |-> <<>>],
   ElementNode("p", <<[name |-> "id", value |-> <<"x">>]>>)}
NodeLeaves ==
  {ElementNode("div", <<>>), TextOf(<<"t">>), TextOf(<<"<">>), CommentOf(<<"c">>)}

\* the value handed to format for a tree: the bare Node, an object with a root
\* property, or the data of a parse result
FormatArg(shape, root) ==
  CASE shape = "node" -> root
    [] shape = "root" -> [root |-> root]
    [] shape = "data" -> [structure |-> [root |-> root], images |-> <<>>, links |-> <<>>]

\* a caller adds a node to the tree
PushChild(path, child) ==
  /\ NodeSize(tree) < MaxNodes
  /\ path \in NodeElementPaths(tree)
  /\ tree' = pushChild(tree, path, child)
  /\ answer' = Null
  /\ UNCHANGED <<cacheVars, parserVars, calls, microtasks, hasSubtle, backend>>

\* the names a caller asks for
FormatNames == {"json", "JSON", "text", "html", "Html", "xml", "yaml", "Yaml", "pdf"}

\* parser.format(x, formatName, {indent: 0}): result is the string returned
Format(shape, formatName) ==
  /\ answer' = LET r == format(FormatArg(shape, tree), formatName)
               IN [op |-> "format", shape |-> shape, formatName |-> formatName,
                   threw |-> r.threw]
                  @@ (IF r.threw THEN [message |-> r.message] ELSE [result |-> r.value])
  /\ UNCHANGED <<cacheVars, parserVars, calls, microtasks, hasSubtle, backend, tree>>

\* the tree is rendered as html, the DOM engine parses the text, and the traverser
\* extracts the node it finds in the body
RoundTrip ==
  /\ answer' = [op |-> "roundtrip", html |-> nodeToHTML(tree),
                result |-> traverse(parseFromString(nodeToHTML(tree))[1], 0,
                                    NewTraverserMaxDepth(NullNum))]
  /\ UNCHANGED <<cacheVars, parserVars, calls, microtasks, hasSubtle, backend, tree>>

InitFormatter ==
  /\ Constructed(NullNum, NullNum, TRUE)
  /\ hasSubtle = TRUE /\ NoBackend
  /\ tree \in NodeRoots
  /\ answer = Null

NextFormatter ==
  \/ \E path \in NodeElementPaths(tree), child \in NodeLeaves : PushChild(path, child)
  \/ \E shape \in {"node", "root", "data"}, formatName \in FormatNames :
       Format(shape, formatName)
  \/ RoundTrip

SpecFormatter == InitFormatter /\ [][NextFormatter]_vars

----------------------------------------------------------------------------
(* The validator on its own: a caller builds a tree, wraps it in a result and
   validates it *)

\* the trees a caller starts from, and the nodes a tree grows by
ValidatorRoots == {ElementNode("div", <<>>), [type |-> "bogus"]}
ValidatorLeaves == {ElementNode("div", <<>>), TextOf(<<"t">>), [type |-> "bogus"]}

\* the results handed to validate for a tree
ResultShapes == {"data", "noroot", "nodata", "nosuccess", "failed", "null"}
ResultOf(shape, root) ==
  CASE shape = "data" -> [success |-> TRUE, data |-> [structure |-> [root |-> root]]]
    [] shape = "noroot" -> [success |-> TRUE, data |-> [structure |-> [header |-> Null]]]
    [] shape = "nodata" -> [success |-> TRUE]
    [] shape = "nosuccess" -> [data |-> [structure |-> [root |-> root]]]
    [] shape = "failed" -> [success |-> FALSE, error |-> "Invalid HTML input"]
    [] shape = "null" -> Null

\* the options handed to new Validator
ValidatorOptionsOf(strict, maxDepth) ==
  <<[name |-> "strict", value |-> strict]>>
  \o (IF maxDepth = NullNum THEN <<>> ELSE <<[name |-> "maxDepth", value |-> maxDepth]>>)

\* a caller adds a node to the tree
PushNode(path, child) ==
  /\ NodeSize(tree) < MaxNodes
  /\ path \in NodeElementPaths(tree)
  /\ tree' = pushChild(tree, path, child)
  /\ answer' = Null
  /\ UNCHANGED <<cacheVars, parserVars, calls, microtasks, hasSubtle, backend>>

\* new Validator({strict, maxDepth}).validate(result)
Validate(shape, strict, maxDepth) ==
  /\ answer' = [op |-> "validate", shape |-> shape, strict |-> strict,
                maxDepth |-> maxDepth, result |-> ResultOf(shape, tree),
                report |-> validate(NewValidator(ValidatorOptionsOf(strict, maxDepth)),
                                    ResultOf(shape, tree))]
  /\ UNCHANGED <<cacheVars, parserVars, calls, microtasks, hasSubtle, backend, tree>>

InitValidator ==
  /\ Constructed(NullNum, NullNum, TRUE)
  /\ hasSubtle = TRUE /\ NoBackend
  /\ tree \in ValidatorRoots
  /\ answer = Null

NextValidator ==
  \/ \E path \in NodeElementPaths(tree), child \in ValidatorLeaves : PushNode(path, child)
  \/ \E shape \in ResultShapes, strict \in BOOLEAN, maxDepth \in {NullNum} \cup 0..MaxLimit :
       Validate(shape, strict, maxDepth)

SpecValidator == InitValidator /\ [][NextValidator]_vars

----------------------------------------------------------------------------
(* The JSON formatter on its own: a caller builds a value and serializes it *)

\* the number of values in a value, itself included
RECURSIVE JsSize(_)
RECURSIVE JsSizeAll(_)
JsSize(value) ==
  1 + (IF value.t = "array" THEN JsSizeAll(value.v)
       ELSE IF value.t = "object" THEN JsSizeAll([i \in 1..Len(value.v) |-> value.v[i].value])
       ELSE 0)
JsSizeAll(values) ==
  IF Len(values) = 0 THEN 0 ELSE JsSize(Head(values)) + JsSizeAll(Tail(values))

\* the value at position i of an array or of an object
JsChild(value, i) == IF value.t = "array" THEN value.v[i] ELSE value.v[i].value

\* the paths, as positions from the root, of the arrays and objects of a value
RECURSIVE JsContainerPaths(_)
JsContainerPaths(value) ==
  IF value.t \notin {"array", "object"} THEN {}
  ELSE {<<>>} \cup UNION {{<<i>> \o p : p \in JsContainerPaths(JsChild(value, i))} :
                            i \in 1..Len(value.v)}

\* the keys a caller gives to the properties of an object, in turn
JsKeys == <<"a", "p", "id", "src", "href", "class">>

\* the value with child added to the array or object at path
RECURSIVE jsAdd(_, _, _)
jsAdd(value, path, child) ==
  IF Len(path) = 0
  THEN IF value.t = "array" THEN JsArray(Append(value.v, child))
       ELSE JsObject(Append(value.v, [name |-> JsKeys[Len(value.v) + 1], value |-> child]))
  ELSE IF value.t = "array"
  THEN JsArray([value.v EXCEPT ![Head(path)] = jsAdd(@, Tail(path), child)])
  ELSE JsObject([value.v EXCEPT ![Head(path)].value = jsAdd(@, Tail(path), child)])

JsLeaves == {JsNull, JsString(<<>>), JsString(<<"t">>), JsArray(<<>>), JsObject(<<>>)}

\* a caller adds a value to the data
JsAdd(path, child) ==
  /\ JsSize(tree) < MaxNodes
  /\ path \in JsContainerPaths(tree)
  /\ tree' = jsAdd(tree, path, child)
  /\ answer' = Null
  /\ UNCHANGED <<cacheVars, parserVars, calls, microtasks, hasSubtle, backend>>

\* formatter.toJSON(data, {indent: 0, excludeEmpty})
ToJSON(excludeEmpty) ==
  /\ answer' = [op |-> "toJSON", excludeEmpty |-> excludeEmpty]
               @@ toJSON(tree, excludeEmpty)
  /\ UNCHANGED <<cacheVars, parserVars, calls, microtasks, hasSubtle, backend, tree>>

InitJson ==
  /\ Constructed(NullNum, NullNum, TRUE)
  /\ hasSubtle = TRUE /\ NoBackend
  /\ tree = JsObject(<<>>)
  /\ answer = Null

NextJson ==
  \/ \E path \in JsContainerPaths(tree), child \in JsLeaves : JsAdd(path, child)
  \/ \E excludeEmpty \in BOOLEAN : ToJSON(excludeEmpty)

SpecJson == InitJson /\ [][NextJson]_vars

----------------------------------------------------------------------------
(* extractImages on its own: a page with one image whose attributes are set one
   by one *)

\* the values given to width and height
SizeValues == {<<>>, <<"1">>, <<"1", "2">>, <<"x">>, <<"1", "x">>, <<" ", "7">>}

\* the image of the page
ImageOf(document) == querySelectorAll(document, "IMG")[1]

\* img.setAttribute(name, value) for an attribute the image does not have yet
SetAttribute(name, value) ==
  /\ getAttribute(ImageOf(tree), name) = Null
  /\ tree' = HtmlDocument(<<Element("IMG",
                                    Append(ImageOf(tree).attributes, Attr(name, value)),
                                    <<>>)>>)
  /\ answer' = Null
  /\ UNCHANGED <<cacheVars, parserVars, calls, microtasks, hasSubtle, backend>>

\* extractImages(document)
ExtractImages ==
  /\ answer' = [op |-> "extractImages", result |-> extractImages(tree)]
  /\ UNCHANGED <<cacheVars, parserVars, calls, microtasks, hasSubtle, backend, tree>>

InitImages ==
  /\ Constructed(NullNum, NullNum, TRUE)
  /\ hasSubtle = TRUE /\ NoBackend
  /\ tree = createDOM(HtmlImg)
  /\ answer = Null

NextImages ==
  \/ \E name \in {"width", "height"}, value \in SizeValues : SetAttribute(name, value)
  \/ ExtractImages

SpecImages == InitImages /\ [][NextImages]_vars

----------------------------------------------------------------------------
(* getMetaContent on its own: a page whose head receives meta tags one by one *)

\* the document with these meta tags in its head
MetaDocument(metas) ==
  [documentElement |->
     Element("HTML", <<>>, <<Element("HEAD", <<>>, metas), Element("BODY", <<>>, <<>>)>>)]

\* description and author
MetaKeys ==
  {<<"d", "e", "s", "c", "r", "i", "p", "t", "i", "o", "n">>,
   <<"a", "u", "t", "h", "o", "r">>}
MetaContents == {<<"n">>, <<"p">>}

\* head.appendChild of <meta attribute=key content=content>
AppendMeta(attribute, key, content) ==
  LET metas == tree.documentElement.childNodes[1].childNodes
  IN /\ Len(metas) < MaxLimit
     /\ tree' = MetaDocument(Append(metas, Element("META",
                                                   <<Attr(attribute, key),
                                                     Attr("content", content)>>, <<>>)))
     /\ answer' = Null
     /\ UNCHANGED <<cacheVars, parserVars, calls, microtasks, hasSubtle, backend>>

\* getMetaContent(document, key)
GetMetaContent(key) ==
  /\ answer' = [op |-> "getMetaContent", key |-> key, result |-> getMetaContent(tree, key)]
  /\ UNCHANGED <<cacheVars, parserVars, calls, microtasks, hasSubtle, backend, tree>>

InitMeta ==
  /\ Constructed(NullNum, NullNum, TRUE)
  /\ hasSubtle = TRUE /\ NoBackend
  /\ tree = MetaDocument(<<>>)
  /\ answer = Null

NextMeta ==
  \/ \E attribute \in {"name", "property"}, key \in MetaKeys, content \in MetaContents :
       AppendMeta(attribute, key, content)
  \/ \E key \in MetaKeys : GetMetaContent(key)

SpecMeta == InitMeta /\ [][NextMeta]_vars

----------------------------------------------------------------------------
(* Claims about the cache *)

\* C1: the number of stored entries never exceeds maxSize
C1_SizeBound == Len(cache) <= maxSize

\* C4: a set call that inserts a new key into a full cache with no expired
\* entry removes the least recently accessed entry, and only that one
C4_EvictsLeastRecent ==
  [][\A k \in LruKeys, d \in Values, ttl \in TtlArgs :
       ( /\ enabled
         /\ ~MapHas(cache, k)
         /\ Len(cache) >= maxSize
         /\ Set(k, d, ttl)
         /\ \A i \in 1..Len(cache) : ~IsExpired(cache[i], now) )
       => KeysOf(cache') = (KeysOf(cache) \ {recency[1]}) \cup {k}]_vars

\* C5: on an enabled cache, a get call that comes right after set(k, v, ttl) with
\* ttl > 0 returns v while the clock is at most t + ttl, and afterwards returns a
\* miss and removes the entry
C5_TtlExpiry ==
  [][\A k \in Keys :
       ( /\ enabled
         /\ lastOp.op = "set"
         /\ lastOp.key = k
         /\ lastOp.ttl > 0
         /\ Get(k) )
       => IF now <= lastOp.at + lastOp.ttl
          THEN lastOp'.ret = lastOp.data /\ MapHas(cache', k)
          ELSE lastOp'.ret = Null /\ ~MapHas(cache', k)]_vars

\* C5 witness: a get call right after a set call with ttl > 0 missed, the TTL
\* having elapsed
C5_Witness ==
  /\ lastOp.op = "get"
  /\ lastOp.direct
  /\ enabled
  /\ lastOp.ttl > 0
  /\ lastOp.when > lastOp.at + lastOp.ttl
  /\ lastOp.ret = Null
  /\ ~MapHas(cache, lastOp.key)

\* a get call on an enabled cache for a key whose set call (with the TTL
\* argument in ttls) was followed by nothing but hits on that key
GetAfterSet(k, ttls) ==
  /\ enabled
  /\ lastOp.key = k
  /\ lastOp.at # NullNum
  /\ lastOp.op = "set" \/ lastOp.ret # Null
  /\ lastOp.ttl \in ttls
  /\ Get(k)

C7_EvictsExactlyOne ==
  [][\A k \in Keys, d \in Values, ttl \in TtlArgs :
       ( /\ enabled
         /\ Len(cache) >= maxSize
         /\ Set(k, d, ttl) )
       => \E v \in KeysOf(cache) :
            /\ KeysOf(cache') = (KeysOf(cache) \ {v}) \cup {k}
            /\ (\E i \in 1..Len(cache) : IsExpired(cache[i], now))
                 => IsExpired(cache[IndexOf(cache, v)], now)]_vars

\* an entry of the Map is not expired at time t, going by its own expiry time
Live(e, t) == e.expires = NullNum \/ t <= e.expires

\* C8: while enabled is false a get call misses and neither get nor set changes
\* the Map; while enabled is true a get call returns every stored entry that has
\* not expired
C8_DisabledFrame ==
  [][\A k \in Keys :
       /\ (~enabled /\ Get(k)) => (cache' = cache /\ lastOp'.ret = Null)
       /\ (~enabled /\ \E d \in Values, ttl \in TtlArgs : Set(k, d, ttl))
            => cache' = cache
       /\ (enabled /\ MapHas(cache, k) /\ Live(cache[IndexOf(cache, k)], now)
             /\ Get(k))
            => lastOp'.ret = cache[IndexOf(cache, k)].data]_vars

\* C8 witness: on a disabled cache, a get call missed a stored entry that has not
\* expired, and the entry is still stored
C8_Witness ==
  /\ ~enabled
  /\ lastOp.op = "get"
  /\ lastOp.ret = Null
  /\ MapHas(cache, lastOp.key)
  /\ Live(cache[IndexOf(cache, lastOp.key)], now)

----------------------------------------------------------------------------
(* Claims about the parse calls *)

\* calls i and j were in flight at the same time
Overlapped(i, j) == i \in calls[j].overlap \/ j \in calls[i].overlap

\* call i ran with no other call in flight
Sequential(i) == \A k \in 1..Len(calls) : k # i => ~Overlapped(i, k)

\* C2: IceblueParser.parse calls with the same html and options that are in flight
\* at the same time perform the extraction at most once
C2_SingleFlight ==
  \A i, j \in 1..Len(calls) :
    (/\ i < j
     /\ calls[i].via = "IceblueParser" /\ calls[j].via = "IceblueParser"
     /\ calls[i].html = calls[j].html /\ calls[i].options = calls[j].options
     /\ Overlapped(i, j))
    => ~(calls[i].extracted /\ calls[j].extracted)

\* the data parse returns for an input on an instance no other call touches
OwnData(html, parseOptions) ==
  LET b == parseBegin(NewInstance, html, parseOptions, 0)
  IN parseEnd(b.self, 0, b.result, 0).ret.data

\* C3: a parse call that succeeds after it was in flight on one IceblueHtmlParser
\* together with a call suspended on a distinct input returns the images, the
\* links and the counts of its own input
C3_OwnResults ==
  \A i \in 1..Len(calls) :
    (/\ calls[i].via = "IceblueHtmlParser"
     /\ calls[i].pc = "done"
     /\ calls[i].ret.success
     /\ \E j \in 1..Len(calls) :
          Overlapped(i, j) /\ calls[j].extracted /\ calls[j].html # calls[i].html)
    => LET own == OwnData(calls[i].html, calls[i].options)
           data == calls[i].ret.data
       IN /\ data.images = own.images
          /\ data.links = own.links
          /\ data.stats.totalElements = own.stats.totalElements
          /\ data.stats.totalTextLength = own.stats.totalTextLength
          /\ data.stats.depth = own.stats.depth

\* C9: when no call is in flight and the cache holds, not expired, the result an
\* earlier IceblueParser.parse call extracted and returned for (html, options), the
\* next call with the same (html, options) returns that result, marked as cached,
\* at once, and leaves the IceblueHtmlParser untouched
C9_SequentialHit ==
  [][\A in \in ParserInputs : \A c \in 1..Len(calls) :
       (/\ InFlight = {}
        /\ enabled
        /\ calls[c].html = in[1] /\ calls[c].options = in[2]
        /\ calls[c].extracted
        /\ calls[c].ret.success
        /\ MapHas(cache, calls[c].key)
        /\ cache[IndexOf(cache, calls[c].key)].data = calls[c].ret
        /\ ~IsExpired(cache[IndexOf(cache, calls[c].key)], now)
        /\ IceblueParserParse(in[1], in[2]))
       => /\ calls'[Len(calls')].pc = "done"
          /\ calls'[Len(calls')].ret = [cached |-> TRUE] @@ calls[c].ret
          /\ ~calls'[Len(calls')].extracted
          /\ UNCHANGED <<parserVars, microtasks>>]_vars

\* two sequential calls with the same input, the second answered from the cache
C9_Witness ==
  /\ Len(calls) = 2
  /\ calls[1].pc = "done" /\ calls[2].pc = "done"
  /\ calls[1].extracted /\ calls[1].ret.success
  /\ calls[2].html = calls[1].html /\ calls[2].options = calls[1].options
  /\ Sequential(2)
  /\ ~calls[2].extracted
  /\ calls[2].ret = [cached |-> TRUE] @@ calls[1].ret

\* the fields of two return values that C10 compares
EqualData(a, b) ==
  /\ a.success = b.success
  /\ a.success =>
       /\ a.data.structure.root = b.data.structure.root
       /\ a.data.images = b.data.images
       /\ a.data.links = b.data.links
       /\ a.data.stats.totalElements = b.data.stats.totalElements
       /\ a.data.stats.totalTextLength = b.data.stats.totalTextLength
       /\ a.data.stats.depth = b.data.stats.depth

\* C10: two parse calls on one IceblueHtmlParser with the same input and options,
\* each run with no other call in flight, return equal data, whatever calls ran
\* before or between them
C10_Idempotent ==
  \A i, j \in 1..Len(calls) :
    (/\ i < j
     /\ calls[i].pc = "done" /\ calls[j].pc = "done"
     /\ calls[i].html = calls[j].html /\ calls[i].options = calls[j].options
     /\ Sequential(i) /\ Sequential(j))
    => EqualData(calls[i].ret, calls[j].ret)

\* the same link parsed twice with another document parsed between
C10_Witness ==
  /\ Len(calls) = 3
  /\ \A i \in 1..3 : calls[i].pc = "done" /\ Sequential(i)
  /\ calls[1].html = HtmlLink /\ calls[3].html = HtmlLink
  /\ calls[1].options = calls[3].options
  /\ calls[2].html = HtmlImg /\ calls[2].ret.success
  /\ calls[3].ret.data.links # <<>>
  /\ calls[3].ret.data.stats.totalElements > 0

----------------------------------------------------------------------------
(* Claims about the traverser *)

\* the largest depth of a node of an emitted tree, its root at depth 0
RECURSIVE NodeDepth(_)
RECURSIVE NodeDepthAll(_)
NodeDepth(n) == IF HasChildren(n) THEN NodeDepthAll(n.children) ELSE 0
NodeDepthAll(nodes) ==
  IF Len(nodes) = 0 THEN 0
  ELSE LET first == 1 + NodeDepth(Head(nodes))
           rest == NodeDepthAll(Tail(nodes))
       IN IF first > rest THEN first ELSE rest

\* the largest depth of a node of a DOM tree, its root at depth 0
RECURSIVE DomDepth(_)
RECURSIVE DomDepthAll(_)
DomDepth(node) == DomDepthAll(node.childNodes)
DomDepthAll(nodes) ==
  IF Len(nodes) = 0 THEN 0
  ELSE LET first == 1 + DomDepth(Head(nodes))
           rest == DomDepthAll(Tail(nodes))
       IN IF first > rest THEN first ELSE rest

Traversed == answer # Null /\ answer.op = "traverse"

\* C11: with maxDepth = d >= 1, no node of the tree that traverse emits lies deeper
\* than d
C11_DepthBound ==
  (Traversed /\ answer.maxDepth >= 1 /\ answer.result # Null)
  => NodeDepth(answer.result) <= answer.maxDepth

\* a DOM deeper than the limit was traversed and cut
C11_Witness ==
  /\ Traversed
  /\ answer.maxDepth = 2
  /\ DomDepth(tree) > 2
  /\ NodeDepth(answer.result) = 1

\* the DOM children of node that traverse emits a node for
Emitted(nodes) == SelectSeq(nodes, LAMBDA c : processNode(c) # Null)

\* node, at depth, and the tree e emitted for it under maxDepth d: the elements
\* whose DOM children fall at depth d have no children key
RECURSIVE CutWithoutChildren(_, _, _, _)
CutWithoutChildren(node, e, depth, d) ==
  IF Len(node.childNodes) = 0 \/ node.nodeType # 1 THEN TRUE
  ELSE IF depth + 1 >= d THEN ~HasChildren(e)
  ELSE /\ HasChildren(e)
       /\ Len(e.children) = Len(Emitted(node.childNodes))
       /\ \A i \in 1..Len(e.children) :
            CutWithoutChildren(Emitted(node.childNodes)[i], e.children[i], depth + 1, d)

\* C12: an element whose DOM children are cut off by maxDepth is emitted without a
\* children key
C12_CutHasNoChildrenKey ==
  (Traversed /\ answer.maxDepth >= 1 /\ answer.result # Null)
  => CutWithoutChildren(tree, answer.result, 0, answer.maxDepth)

----------------------------------------------------------------------------
(* Claims about the formatter *)

Formatted == answer # Null /\ answer.op = "format"

\* C13: format(x, 'html') is the HTML reconstruction of the root node, for x the
\* data of a parse result and for x a bare Node
C13_FormatHtml ==
  (Formatted /\ answer.formatName = "html" /\ answer.shape \in {"node", "data"})
  => answer.result = nodeToHTML(tree)

\* the children of a node, none when it has no children key
ChildrenOf(n) == IF HasChildren(n) THEN n.children ELSE <<>>

\* the same tags, attributes, child order, text and comment text
RECURSIVE Isomorphic(_, _)
Isomorphic(a, b) ==
  /\ a # Null /\ b # Null
  /\ a.type = b.type
  /\ IF a.type = "element"
     THEN a.tag = b.tag /\ a.attributes = b.attributes
     ELSE a.text = b.text
  /\ Len(ChildrenOf(a)) = Len(ChildrenOf(b))
  /\ \A i \in 1..Len(ChildrenOf(a)) : Isomorphic(ChildrenOf(a)[i], ChildrenOf(b)[i])

\* no element of the tree has a self-closing tag
RECURSIVE NoSelfClosingTag(_)
NoSelfClosingTag(n) ==
  /\ n.type = "element" => ~isSelfClosingTag(n.tag)
  /\ \A i \in 1..Len(ChildrenOf(n)) : NoSelfClosingTag(ChildrenOf(n)[i])

\* C14: a tree of elements with non-self-closing tags, text and comments, rendered
\* as html, parsed by the DOM engine and extracted again, comes back isomorphic
C14_RoundTrip ==
  (answer # Null /\ answer.op = "roundtrip" /\ NoSelfClosingTag(tree))
  => Isomorphic(answer.result, tree)

\* the calls of IceblueHtmlParser.parse that were given a non-string or empty input
RejectedCalls ==
  {i \in 1..Len(calls) : calls[i].via = "IceblueHtmlParser" /\ InvalidHtml(calls[i].html)}

\* C15: parse called with a non-string or empty input returns success = false with
\* errorCode INVALID_INPUT or INVALID_HTML and no data field, and extracts nothing
C15_FailsFast ==
  \A i \in RejectedCalls :
    /\ calls[i].pc = "done"
    /\ calls[i].ret.success = FALSE
    /\ calls[i].ret.errorCode \in {"INVALID_INPUT", "INVALID_HTML"}
    /\ "data" \notin DOMAIN calls[i].ret
    /\ ~calls[i].extracted

\* a validate call has returned its report
Validated == answer # Null /\ answer.op = "validate"

\* C16: validate reports valid = false, with an error, for every result whose
\* success is true and whose data is absent
C16_MissingDataIsInvalid ==
  (Validated /\ answer.result # Null /\ HasField(answer.result, "success")
   /\ answer.result.success /\ ~HasField(answer.result, "data"))
  => (~answer.report.valid /\ Len(answer.report.errors) > 0)

\* the report of a validator built with the other value of strict, for the same
\* input and the same maxDepth
OtherStrictReport ==
  validate(NewValidator(ValidatorOptionsOf(~answer.strict, answer.maxDepth)), answer.result)

\* C17: a validator built with strict = true and one built with strict = false
\* return the same valid flag, the same errors and the same warnings
C17_StrictChangesNothing ==
  Validated => answer.report = OtherStrictReport

\* every node of the tree is an element with a tag or a text with its text
RECURSIVE WellFormed(_)
WellFormed(n) ==
  /\ HasField(n, "type") /\ n.type \in {"element", "text"}
  /\ n.type = "element" => HasField(n, "tag")
  /\ n.type = "text" => HasField(n, "text")
  /\ \A i \in 1..Len(ChildrenOf(n)) : WellFormed(ChildrenOf(n)[i])

\* the number of nodes at depth d below n, n itself at depth 0
RECURSIVE NodesAtDepth(_, _)
RECURSIVE NodesAtDepthAll(_, _)
NodesAtDepth(n, d) == IF d = 0 THEN 1 ELSE NodesAtDepthAll(ChildrenOf(n), d - 1)
NodesAtDepthAll(nodes, d) ==
  IF Len(nodes) = 0 THEN 0
  ELSE NodesAtDepth(Head(nodes), d) + NodesAtDepthAll(Tail(nodes), d)

\* the maxDepth the validator of the last call was built with
ValidatedMaxDepth == IF answer.maxDepth = NullNum THEN MAX_DEPTH ELSE answer.maxDepth

\* the message, with any path before it, says that the depth exceeds maxDepth
IsDepthMessage(message) ==
  LET text == <<"Node depth exceeds maximum depth of ">> \o NumberToString(ValidatedMaxDepth)
  IN Len(message) >= Len(text)
     /\ SubSeq(message, Len(message) - Len(text) + 1, Len(message)) = text
DepthMessages(messages) == {i \in 1..Len(messages) : IsDepthMessage(messages[i])}

\* a well-formed tree has been validated as the root of a successful result
ValidatedWellFormed == Validated /\ answer.shape = "data" /\ WellFormed(tree)

\* C19: for a well-formed tree and maxDepth m, the report has a depth error, and
\* valid = false, exactly when the tree has a node at depth greater than m; the
\* depth is reported as an error and not as a warning, once for each node at depth
\* m + 1, and nothing is reported for the nodes below it
C19_DepthError ==
  ValidatedWellFormed =>
    /\ (DepthMessages(answer.report.errors) # {}) <=> (NodesAtDepth(tree, ValidatedMaxDepth + 1) > 0)
    /\ answer.report.valid <=> (NodesAtDepth(tree, ValidatedMaxDepth + 1) = 0)
    /\ DepthMessages(answer.report.warnings) = {}
    /\ Cardinality(DepthMessages(answer.report.errors))
         = NodesAtDepth(tree, ValidatedMaxDepth + 1)
    /\ Len(answer.report.errors) = Cardinality(DepthMessages(answer.report.errors))

\* a tree with a node at depth m + 1 that has a child of its own has been validated
C19_Witness ==
  /\ ValidatedWellFormed
  /\ answer.maxDepth = 1
  /\ NodesAtDepth(tree, 2) = 1
  /\ NodesAtDepth(tree, 3) = 1
  /\ ~answer.report.valid

\* the paths, as child indices from the root, of the nodes whose type is not one of
\* the four known kinds
RECURSIVE InvalidTypePaths(_)
InvalidTypePaths(n) ==
  (IF n.type \notin {"element", "text", "comment", "document"} THEN {<<>>} ELSE {})
  \cup UNION {{<<i>> \o p : p \in InvalidTypePaths(ChildrenOf(n)[i])} :
               i \in 1..Len(ChildrenOf(n))}

\* 'Child[i].Child[j]' for a path, indices from 0
RECURSIVE DottedPath(_)
DottedPath(path) ==
  IF Len(path) = 0 THEN <<>>
  ELSE <<"Child[">> \o NumberToString(Head(path) - 1) \o <<"]">>
       \o (IF Len(path) > 1 THEN <<".">> ELSE <<>>) \o DottedPath(Tail(path))

\* 'Child[i].Child[j]: <message>', the message alone for the root
PathQualified(path, message) ==
  IF Len(path) = 0 THEN message ELSE DottedPath(path) \o <<": ">> \o message

\* C20: for every node of data.structure.root with an unknown type, validate returns
\* valid = false with the error 'Invalid node type: <type>' qualified by the path
\* from the root in the form 'Child[i].Child[j]: <message>'
C20_PathQualified ==
  (Validated /\ answer.shape = "data" /\ answer.maxDepth = NullNum) =>
    \A path \in InvalidTypePaths(tree) :
      /\ ~answer.report.valid
      /\ \E i \in 1..Len(answer.report.errors) :
           answer.report.errors[i] = PathQualified(path, <<"Invalid node type: ", "bogus">>)

\* the calls of BackendParser.parse that have returned after a successful
\* extraction with validation enabled
ValidatedCalls ==
  {i \in 1..Len(calls) :
     /\ calls[i].via = "BackendParser" /\ calls[i].pc = "done" /\ calls[i].extracted
     /\ GetOption(Spread(backend.options, calls[i].options), "validate")}
StrictModeOf(i) == GetOption(Spread(backend.options, calls[i].options), "strictMode")

RECURSIVE TextIsTrimmed(_)
TextIsTrimmed(n) ==
  /\ n.type = "text" => (Len(n.text) > 0 /\ ~IsSpace(n.text[1]) /\ ~IsSpace(n.text[Len(n.text)]))
  /\ \A i \in 1..Len(ChildrenOf(n)) : TextIsTrimmed(ChildrenOf(n)[i])

\* the calls of IceblueHtmlParser.parse that have returned success = true
SucceededCalls ==
  {i \in 1..Len(calls) :
     calls[i].via = "IceblueHtmlParser" /\ calls[i].pc = "done" /\ calls[i].ret.success}

\* C21: in every tree returned by parse, under any options and for any document,
\* every text node has a non-empty text with no leading or trailing white space
C21_NoEmptyText ==
  \A i \in SucceededCalls : TextIsTrimmed(calls[i].ret.data.structure.root)

\* the value has, at some depth, an object property whose value is null, the empty
\* string, an empty array or an empty object
RECURSIVE HasEmptyProperty(_)
HasEmptyProperty(value) ==
  /\ value.t \in {"array", "object"}
  /\ \E i \in 1..Len(value.v) :
       \/ value.t = "object" /\ IsEmptyValue(value.v[i].value)
       \/ HasEmptyProperty(JsChild(value, i))

\* C22: with excludeEmpty on, the value serialized by toJSON has no empty property
\* at any depth, and removeEmptyValues changes nothing when applied to its own
\* output
C22_ExcludeEmpty ==
  (answer # Null /\ answer.op = "toJSON" /\ answer.excludeEmpty) =>
    /\ ~HasEmptyProperty(answer.formattedData)
    /\ removeEmptyValues(answer.formattedData) = answer.formattedData

\* the characters are decimal digits, at least one
IsNumeric(chars) == Len(chars) > 0 /\ \A i \in 1..Len(chars) : DigitValue(chars[i]) # NullNum

\* the value the size of the image must have: the integer of a numeric attribute,
\* null when the attribute is absent or not numeric
ExpectedSize(name) ==
  LET attribute == getAttribute(ImageOf(tree), name)
  IN IF attribute # Null /\ IsNumeric(attribute.chars)
     THEN Num(ParseDigits(attribute.chars, 0))
     ELSE Null

\* C23: for every image kept by extractImages, width and height are an integer
\* when the attribute holds a numeric value and null when it is absent or holds a
\* non-numeric value
C23_IntegerOrNull ==
  (answer # Null /\ answer.op = "extractImages") =>
    \A i \in 1..Len(answer.result) :
      /\ answer.result[i].width = ExpectedSize("width")
      /\ answer.result[i].height = ExpectedSize("height")

\* the meta tags of the page that carry the key in that attribute, in document order
MetasWith(attribute, key) ==
  SelectSeq(querySelectorAll(tree, "META"),
            LAMBDA el : getAttribute(el, attribute) # Null
                        /\ getAttribute(el, attribute).chars = key)

\* C24: when the document has both a meta tag with name = K and one with
\* property = K, getMetaContent returns the content of the name = K tag, in
\* whatever order the two tags stand
C24_NameFirst ==
  (/\ answer # Null /\ answer.op = "getMetaContent"
   /\ Len(MetasWith("name", answer.key)) > 0
   /\ Len(MetasWith("property", answer.key)) > 0)
  => answer.result = AttrOrEmpty(MetasWith("name", answer.key)[1], "content")

\* the calls of parseUrl that have returned
FetchedCalls ==
  {i \in 1..Len(calls) : calls[i].via = "BackendParser.parseUrl" /\ calls[i].pc = "done"}

\* C25: when the fetch of url succeeds, parseUrl returns the parse result of the
\* fetched HTML with url attached, success = true for parsable HTML; when the fetch
\* fails, it returns success = false with errorCode NETWORK_ERROR
C25_ParseUrl ==
  \A i \in FetchedCalls :
    IF calls[i].response.success
    THEN /\ calls[i].ret.success
         /\ HasField(calls[i].ret, "url") /\ calls[i].ret.url = calls[i].url
    ELSE ~calls[i].ret.success /\ calls[i].ret.errorCode = "NETWORK_ERROR"

\* C26: format called with a name other than json, text, html or xml, compared
\* without regard to case, fails with an 'Unsupported format' error and returns no
\* output, and each of the four supported names returns a string
C26_UnsupportedFormat ==
  Formatted =>
    IF answer.formatName \in {"json", "JSON", "text", "html", "Html", "xml"}
    THEN ~answer.threw /\ answer.result \in Seq(STRING)
    ELSE /\ answer.threw
         /\ ~HasField(answer, "result")
         /\ answer.message = <<"Unsupported format: ", answer.formatName>>

\* an unsupported name was refused
C26_Witness == Formatted /\ answer.formatName = "Yaml" /\ answer.threw

\* C27: every result that IceblueHtmlParser.parse returns with success = true
\* passes Validator.validate with no errors
C27_ParseResultsAreValid ==
  \A i \in SucceededCalls :
    LET report == validate(NewValidator(<<>>), calls[i].ret)
    IN report.valid /\ Len(report.errors) = 0

\* C28: a set call for a key already stored in a cache at capacity replaces the
\* value of that key and leaves every other entry in place
C28_UpdateKeepsOthers ==
  [][\A k \in LruKeys, d \in Values, ttl \in {NullNum, 1} :
       ( /\ enabled
         /\ Len(cache) >= maxSize
         /\ MapHas(cache, k)
         /\ Set(k, d, ttl) )
       => /\ KeysOf(cache') = KeysOf(cache)
          /\ \A v \in KeysOf(cache) \ {k} :
               cache'[IndexOf(cache', v)] = cache[IndexOf(cache, v)]]_vars

\* the report of a Validator built with the maxDepth of the last traverse call,
\* for the tree that call emitted
TraversedReport ==
  validateNode(NewValidator(<<[name |-> "maxDepth", value |-> answer.maxDepth]>>),
               answer.result, 0)

RetryWaits(n) == [k \in 1..(n - 1) |-> k * 1000]

\* C30: a failed request is sent again up to retries times, after a wait of
\* retryCount x 1000 ms each time; the error reaches the caller only after retries
\* further attempts have failed, and no request is attempted more than retries + 1
\* times
C30_Retries ==
  \A i \in 1..Len(calls) :
    calls[i].via = "ProxyService" =>
      /\ calls[i].attempts <= GetOption(backend, "retries") + 1
      /\ calls[i].pc = "rejected" => calls[i].attempts = GetOption(backend, "retries") + 1
      /\ calls[i].pc \in {"sent", "rejected", "resolved"}
           => calls[i].waits = RetryWaits(calls[i].attempts)

=============================================================================
